---- MODULE Spec2Model ----
(***************************************************************************)
(* A model of go-fast-pdf: the page loop of loader.LoadPDF, the text       *)
(* extractor (Extractor.processOp / handleText) and the content-stream     *)
(* parser (ContentStreamParser.Parse / Next / skipInlineImage).            *)
(*                                                                         *)
(* Numbers.  PDF numbers are float64 in the code.  Here an operand holds   *)
(* an integer n; a length (matrix translation, spacing, leading, lastX,    *)
(* lastY, a width in text space) is kept in units of 1/Unit, so the        *)
(* operand n read as a length is n * Unit; the linear part of a matrix,    *)
(* the font size and the horizontal scale (percent) are plain integers.    *)
(* With glyph widths that are multiples of 100 and scales that are         *)
(* multiples of 10 every quotient below is exact, so the arithmetic is     *)
(* the real arithmetic of the code; float rounding is not modelled.        *)
(*                                                                         *)
(* Strings are sequences of byte values.                                   *)
(***************************************************************************)
EXTENDS Integers, Sequences, FiniteSets, TLC

Unit == 10000

\* byte values used by the code
NL == 10
SP == 32

Abs(x) == IF x < 0 THEN -x ELSE x

(***************************************************************************)
(* Matrix: six elements, m[1..6] here for m[0..5] of the code.             *)
(***************************************************************************)
IdentityMatrix == <<1, 0, 0, 1, 0, 0>>

Mult(a, b) ==
  << a[1]*b[1] + a[2]*b[3],
     a[1]*b[2] + a[2]*b[4],
     a[3]*b[1] + a[4]*b[3],
     a[3]*b[2] + a[4]*b[4],
     a[5]*b[1] + a[6]*b[3] + b[5],
     a[5]*b[2] + a[6]*b[4] + b[6] >>

(***************************************************************************)
(* Objects.  One record shape for every object: k is the dynamic type,     *)
(* n the value of a NumberObject, nm of a NameObject, s the bytes of a     *)
(* StringObject or HexStringObject, a the elements of an ArrayObject, d    *)
(* the entries of a DictionaryObject.  In an operation handed to the       *)
(* extractor names and operators are written as TLA+ strings; the lexer    *)
(* yields a name or a keyword as its bytes (field s).                      *)
(***************************************************************************)
Obj(k, n, nm, s, a) == [k |-> k, n |-> n, nm |-> nm, s |-> s, a |-> a, d |-> <<>>]
Num(n)   == Obj("num", n, "", <<>>, <<>>)
Name(nm) == Obj("name", 0, nm, <<>>, <<>>)
Str(s)   == Obj("str", 0, "", s, <<>>)
Hex(s)   == Obj("hex", 0, "", s, <<>>)
Arr(a)   == Obj("arr", 0, "", <<>>, a)
Bool     == Obj("bool", 0, "", <<>>, <<>>)
LexName(s)  == Obj("name", 0, "", s, <<>>)
Keyword(s)  == Obj("kw", 0, "", s, <<>>)
Dictionary(d) == [Obj("dict", 0, "", <<>>, <<>>) EXCEPT !.d = d]

Operation(operator, operands) == [Operator |-> operator, Operands |-> operands]

\* number(o): the value of a NumberObject, 0 for anything else
number(o) == IF o.k = "num" THEN o.n ELSE 0

\* the same, read as a length
length(o) == number(o) * Unit

\* argsToMatrix(args): linear part plain, translation as lengths
argsToMatrix(args) ==
  << number(args[1]), number(args[2]), number(args[3]), number(args[4]),
     length(args[5]), length(args[6]) >>

(***************************************************************************)
(* Fonts.  A font dictionary as the reader resolves it: FirstChar, Widths  *)
(* and the ToUnicode entry.  ParseCMap is not part of the sources at hand; *)
(* only its result matters here: an error, or the code -> string map.      *)
(* A CMap key is the four hex digits that fmt.Sprintf("%04X", code) gives. *)
(***************************************************************************)
DefaultSpaceWidth == 250

NullObject == [k |-> "null"]

FontDict(hasFirst, first, widths, toUnicode, cmap) ==
  [k |-> "dict", hasFirstChar |-> hasFirst, FirstChar |-> first,
   Widths |-> widths, ToUnicode |-> toUnicode, parsed |-> cmap]

\* fmt.Sprintf("%04X", code) for 0 <= code < 65536, as four hex digits
Sprintf04X(code) ==
  << (code \div 4096) % 16, (code \div 256) % 16, (code \div 16) % 16, code % 16 >>

\* NewCMap(): the empty map
NewCMap == [isNil |-> FALSE, Map |-> <<>>]
NilCMap == [isNil |-> TRUE, Map |-> <<>>]

\* the /Resources /Font dictionary of the page the extractor is built for
FontDicts ==
  [name \in {"F1", "F2", "F3"} |->
     CASE name = "F1" ->   \* simple font, codes 33..126 all 500 wide, no ToUnicode
            FontDict(TRUE, 33, [i \in 1..94 |-> Num(500)], "absent", <<>>)
       [] name = "F2" ->   \* no FirstChar (CID font), ToUnicode <0041> -> "B", <0102> -> " "
            FontDict(FALSE, 0, <<>>, "stream",
                     [err |-> FALSE,
                      Map |-> (Sprintf04X(65) :> <<66>>) @@ (Sprintf04X(258) :> <<SP>>)])
       [] name = "F3" ->   \* simple font from code 32 (space 300 wide); ParseCMap fails on
                           \* its ToUnicode after the entry <0041> -> "C"
            FontDict(TRUE, 32, <<Num(300), Num(600), Name("x"), Num(400)>>, "stream",
                     [err |-> TRUE, Map |-> (Sprintf04X(65) :> <<67>>)]) ]

\* loadFont with a slip: the CMap of a failed ParseCMap is used all the same
loadFont_KeepsFailedCMap(obj) ==
  LET widths ==
        IF obj.hasFirstChar
        THEN [c \in { obj.FirstChar + i - 1 : i \in { j \in 1..Len(obj.Widths) : obj.Widths[j].k = "num" } }
                |-> obj.Widths[c - obj.FirstChar + 1].n]
        ELSE <<>>
      cmap ==
        IF obj.ToUnicode = "stream"
        THEN [isNil |-> FALSE, Map |-> obj.parsed.Map]
        ELSE NewCMap
  IN [Widths |-> widths,
      MissingW |-> 0,
      SpaceWidth |-> IF SP \in DOMAIN widths THEN widths[SP] ELSE DefaultSpaceWidth,
      IsCID |-> ~obj.hasFirstChar,
      CMap |-> cmap]

loadFont(obj) ==
  LET widths ==
        IF obj.hasFirstChar
        THEN [c \in { obj.FirstChar + i - 1 : i \in { j \in 1..Len(obj.Widths) : obj.Widths[j].k = "num" } }
                |-> obj.Widths[c - obj.FirstChar + 1].n]
        ELSE <<>>
      cmap ==
        IF obj.ToUnicode = "stream"
        THEN IF ~obj.parsed.err THEN [isNil |-> FALSE, Map |-> obj.parsed.Map] ELSE NilCMap
        ELSE NewCMap
  IN [Widths |-> widths,
      MissingW |-> 0,
      SpaceWidth |-> IF SP \in DOMAIN widths THEN widths[SP] ELSE DefaultSpaceWidth,
      IsCID |-> ~obj.hasFirstChar,
      CMap |-> cmap]

(***************************************************************************)
(* Extractor.  e.Font is the name of the selected font, NoFont for nil.    *)
(***************************************************************************)
NoFont == "nil"

NewTextState ==
  [Font |-> NoFont, FontSize |-> 0, CharSpacing |-> 0, WordSpacing |-> 0,
   Scale |-> 100, Leading |-> 0, TM |-> IdentityMatrix, TLM |-> IdentityMatrix]

\* NewExtractor(r, page): fontObjs is what each entry of /Resources /Font resolves to.
\* The unchecked assertion .(DictionaryObject) panics on anything but a dictionary.
NewExtractor(fontObjs) ==
  [panic |-> \E name \in DOMAIN fontObjs : fontObjs[name].k # "dict",
   e |-> [gState |-> [CTM |-> IdentityMatrix], gStack |-> <<>>, textState |-> NewTextState,
          lastX |-> 0, lastY |-> 0, buffer |-> <<>>],
   fonts |-> [name \in { x \in DOMAIN fontObjs : fontObjs[x].k = "dict" } |-> loadFont(fontObjs[name])]]

\* the font table of the extractor of a page with FontDicts
fonts == NewExtractor(FontDicts).fonts

RECURSIVE SumWidths(_, _, _)
\* the loop over rawBytes of handleText: widths[code], MissingW for a code without one
SumWidths(font, raw, i) ==
  IF i > Len(raw) THEN 0
  ELSE (IF raw[i] \in DOMAIN font.Widths THEN font.Widths[raw[i]] ELSE font.MissingW)
       + SumWidths(font, raw, i + 1)

RECURSIVE Count(_, _)
\* strings.Count(s, c) for a single byte c
Count(s, c) ==
  IF s = <<>> THEN 0 ELSE (IF Head(s) = c THEN 1 ELSE 0) + Count(Tail(s), c)

\* string(b) for a byte b: the UTF-8 encoding of the code point b
RuneString(b) == IF b < 128 THEN <<b>> ELSE << 192 + (b \div 64), 128 + (b % 64) >>

RECURSIVE DecodeCMap_NoOneByteKey(_, _, _)
\* DecodeCMap with a slip: the one-byte key is never tried
DecodeCMap_NoOneByteKey(map, raw, i) ==
  IF i > Len(raw) THEN <<>>
  ELSE IF i + 1 <= Len(raw) /\ Sprintf04X(raw[i] * 256 + raw[i + 1]) \in DOMAIN map
       THEN map[Sprintf04X(raw[i] * 256 + raw[i + 1])] \o DecodeCMap_NoOneByteKey(map, raw, i + 2)
       ELSE RuneString(raw[i]) \o DecodeCMap_NoOneByteKey(map, raw, i + 1)

RECURSIVE DecodeCMap(_, _, _)
\* the decode loop of handleText: two-byte key first, then one-byte key, then the byte itself
DecodeCMap(map, raw, i) ==
  IF i > Len(raw) THEN <<>>
  ELSE IF i + 1 <= Len(raw) /\ Sprintf04X(raw[i] * 256 + raw[i + 1]) \in DOMAIN map
       THEN map[Sprintf04X(raw[i] * 256 + raw[i + 1])] \o DecodeCMap(map, raw, i + 2)
       ELSE IF Sprintf04X(raw[i]) \in DOMAIN map
            THEN map[Sprintf04X(raw[i])] \o DecodeCMap(map, raw, i + 1)
            ELSE RuneString(raw[i]) \o DecodeCMap(map, raw, i + 1)

\* step 3 of handleText
Decode(ts, raw) ==
  IF ts.Font # NoFont /\ ~fonts[ts.Font].CMap.isNil /\ DOMAIN fonts[ts.Font].CMap.Map # {}
  THEN DecodeCMap(fonts[ts.Font].CMap.Map, raw, 1)
  ELSE raw

\* step 2 of handleText: the gap above which a space is inserted
Threshold(ts) ==
  LET spaceWidth == IF ts.Font # NoFont
                    THEN (fonts[ts.Font].SpaceWidth * ts.FontSize * (Unit \div 1000) * ts.Scale) \div 100
                    ELSE 0
  IN IF spaceWidth > 0 THEN spaceWidth \div 2 ELSE (ts.FontSize * Unit) \div 5

\* Whitespace with a slip: the buffer's last character is not looked at
Whitespace_NoSuffixCheck(e, x, y) ==
  IF Abs(y - e.lastY) > (e.textState.FontSize * Unit) \div 2
  THEN IF Len(e.buffer) > 0 THEN <<NL>> ELSE <<>>
  ELSE IF x - e.lastX > Threshold(e.textState) /\ Len(e.buffer) > 0
       THEN <<SP>>
       ELSE <<>>

\* step 2 of handleText: what is written to the buffer before the decoded text
Whitespace(e, x, y) ==
  IF Abs(y - e.lastY) > (e.textState.FontSize * Unit) \div 2
  THEN IF Len(e.buffer) > 0 THEN <<NL>> ELSE <<>>
  ELSE IF x - e.lastX > Threshold(e.textState)
          /\ Len(e.buffer) > 0
          /\ e.buffer[Len(e.buffer)] # NL
          /\ e.buffer[Len(e.buffer)] # SP
       THEN <<SP>>
       ELSE <<>>

\* TotalWidth with a slip: the character spacing is added once, not per byte
TotalWidth_CharSpacingOnce(ts, raw, decoded) ==
  IF ts.Font # NoFont /\ DOMAIN fonts[ts.Font].Widths # {}
  THEN ((SumWidths(fonts[ts.Font], raw, 1) * ts.FontSize * (Unit \div 1000)
         + ts.CharSpacing
         + Count(decoded, SP) * ts.WordSpacing) * ts.Scale) \div 100
  ELSE (Len(decoded) * ts.FontSize * (Unit \div 2) * ts.Scale) \div 100

\* step 4 of handleText
TotalWidth(ts, raw, decoded) ==
  IF ts.Font # NoFont /\ DOMAIN fonts[ts.Font].Widths # {}
  THEN ((SumWidths(fonts[ts.Font], raw, 1) * ts.FontSize * (Unit \div 1000)
         + Len(raw) * ts.CharSpacing
         + Count(decoded, SP) * ts.WordSpacing) * ts.Scale) \div 100
  ELSE (Len(decoded) * ts.FontSize * (Unit \div 2) * ts.Scale) \div 100

\* handleText with a slip: the buffer is reset before the string is written
handleText_BufferReset(e, obj) ==
  IF obj.k \notin {"str", "hex"} THEN e
  ELSE
    LET rawBytes == obj.s
        fm == Mult(e.textState.TM, e.gState.CTM)
        x == fm[5]
        y == fm[6]
        decoded == Decode(e.textState, rawBytes)
        totalWidth == TotalWidth(e.textState, rawBytes, decoded)
        TM == e.textState.TM
    IN [e EXCEPT !.buffer = Whitespace(e, x, y) \o decoded,
                 !.lastX = x + totalWidth,
                 !.lastY = y,
                 !.textState.TM = [TM EXCEPT ![5] = @ + totalWidth * TM[1],
                                             ![6] = @ + totalWidth * TM[2]]]

\* handleText with a slip: lastX is left at the start of the string
handleText_LastXAtStart(e, obj) ==
  IF obj.k \notin {"str", "hex"} THEN e
  ELSE
    LET rawBytes == obj.s
        fm == Mult(e.textState.TM, e.gState.CTM)
        x == fm[5]
        y == fm[6]
        decoded == Decode(e.textState, rawBytes)
        totalWidth == TotalWidth(e.textState, rawBytes, decoded)
        TM == e.textState.TM
    IN [e EXCEPT !.buffer = @ \o Whitespace(e, x, y) \o decoded,
                 !.lastX = x,
                 !.lastY = y,
                 !.textState.TM = [TM EXCEPT ![5] = @ + totalWidth * TM[1],
                                             ![6] = @ + totalWidth * TM[2]]]

handleText(e, obj) ==
  IF obj.k \notin {"str", "hex"} THEN e
  ELSE
    LET rawBytes == obj.s
        fm == Mult(e.textState.TM, e.gState.CTM)
        x == fm[5]
        y == fm[6]
        decoded == Decode(e.textState, rawBytes)
        totalWidth == TotalWidth(e.textState, rawBytes, decoded)
        TM == e.textState.TM
    IN [e EXCEPT !.buffer = @ \o Whitespace(e, x, y) \o decoded,
                 !.lastX = x + totalWidth,
                 !.lastY = y,
                 !.textState.TM = [TM EXCEPT ![5] = @ + totalWidth * TM[1],
                                             ![6] = @ + totalWidth * TM[2]]]

(***************************************************************************)
(* processOp.  The result is the extractor after the call, whether the     *)
(* call panicked (an index or slice out of range: the state is then what   *)
(* the assignments before the faulting expression left), and, for the      *)
(* properties of single shows, the record of every string handleText       *)
(* showed during the call: the extractor before it, the string, and the    *)
(* extractor after it.                                                     *)
(***************************************************************************)
Result(e) == [e |-> e, panic |-> FALSE, shows |-> <<>>]

Panic(r) == [r EXCEPT !.panic = TRUE]

\* a call e.handleText(obj)
callHandleText(r, obj) ==
  [r EXCEPT !.e = handleText(r.e, obj),
            !.shows = IF obj.k \in {"str", "hex"}
                      THEN Append(@, [before |-> r.e, obj |-> obj, after |-> handleText(r.e, obj)])
                      ELSE @]

\* case "T*"
opTStar(r) ==
  LET m == <<1, 0, 0, 1, 0, -r.e.textState.Leading>>
      TLM == Mult(m, r.e.textState.TLM)
  IN [r EXCEPT !.e.textState.TLM = TLM, !.e.textState.TM = TLM]

\* case "Tj"
opTj(r, Operands) ==
  IF Len(Operands) > 0 THEN callHandleText(r, Operands[1]) ELSE r

\* opTd with a slip: the move is made from the text matrix, the end of the
\* text shown, instead of the text-line matrix
opTd_FromTM(r, Operands) ==
  IF Len(Operands) < 2 THEN Panic(r)
  ELSE LET m == <<1, 0, 0, 1, length(Operands[1]), length(Operands[2])>>
           TLM == Mult(m, r.e.textState.TM)
       IN [r EXCEPT !.e.textState.TLM = TLM, !.e.textState.TM = TLM]

\* case "Td", and the part of "TD" after the leading is set; the operand
\* accesses Operands[0], Operands[1] panic when the operand is not there
opTd(r, Operands) ==
  IF Len(Operands) < 2 THEN Panic(r)
  ELSE LET m == <<1, 0, 0, 1, length(Operands[1]), length(Operands[2])>>
           TLM == Mult(m, r.e.textState.TLM)
       IN [r EXCEPT !.e.textState.TLM = TLM, !.e.textState.TM = TLM]

\* TJShift with a slip: the sign of the adjustment is lost
TJShift_NoNegation(ts, n) == (n * ts.FontSize * (Unit \div 1000) * ts.Scale) \div 100

\* the adjustment of a number element of a TJ array
TJShift(ts, n) == ((-n) * ts.FontSize * (Unit \div 1000) * ts.Scale) \div 100

RECURSIVE opTJLoop(_, _, _)
\* case "TJ": the loop over the array
opTJLoop(r, arr, i) ==
  IF i > Len(arr) THEN r
  ELSE IF arr[i].k = "num"
       THEN LET ts == r.e.textState
                shift == TJShift(ts, arr[i].n)
            IN opTJLoop([r EXCEPT !.e.textState.TM =
                             [ts.TM EXCEPT ![5] = @ + shift * ts.TM[1],
                                           ![6] = @ + shift * ts.TM[2]]],
                        arr, i + 1)
       ELSE opTJLoop(callHandleText(r, arr[i]), arr, i + 1)

\* opTf with a slip: a name that is not in the font table unsets the font
opTf_UnknownUnsetsFont(r, Operands) ==
  IF Len(Operands) < 1 THEN Panic(r)
  ELSE LET r1 == IF Operands[1].k = "name" /\ Operands[1].nm \in DOMAIN fonts
                 THEN [r EXCEPT !.e.textState.Font = Operands[1].nm]
                 ELSE [r EXCEPT !.e.textState.Font = NoFont]
       IN IF Len(Operands) < 2 THEN Panic(r1)
          ELSE [r1 EXCEPT !.e.textState.FontSize = number(Operands[2])]

\* case "Tf"
opTf(r, Operands) ==
  IF Len(Operands) < 1 THEN Panic(r)
  ELSE LET r1 == IF Operands[1].k = "name" /\ Operands[1].nm \in DOMAIN fonts
                 THEN [r EXCEPT !.e.textState.Font = Operands[1].nm]
                 ELSE r
       IN IF Len(Operands) < 2 THEN Panic(r1)
          ELSE [r1 EXCEPT !.e.textState.FontSize = number(Operands[2])]

\* case "\""
opDoubleQuote(r, Operands) ==
  IF Len(Operands) < 1 THEN Panic(r)
  ELSE LET r1 == [r EXCEPT !.e.textState.WordSpacing = length(Operands[1])]
       IN IF Len(Operands) < 2 THEN Panic(r1)
          ELSE opTj(opTStar([r1 EXCEPT !.e.textState.CharSpacing = length(Operands[2])]),
                    SubSeq(Operands, 3, Len(Operands)))

\* case "q"
opq(r) == [r EXCEPT !.e.gStack = Append(@, r.e.gState)]

\* opQ with a slip: the stack is popped but the saved state is not restored
opQ_PopOnly(r) ==
  IF Len(r.e.gStack) > 0
  THEN [r EXCEPT !.e.gStack = SubSeq(r.e.gStack, 1, Len(r.e.gStack) - 1)]
  ELSE r

\* case "Q"
opQ(r) ==
  IF Len(r.e.gStack) > 0
  THEN [r EXCEPT !.e.gState = r.e.gStack[Len(r.e.gStack)],
                 !.e.gStack = SubSeq(r.e.gStack, 1, Len(r.e.gStack) - 1)]
  ELSE r

\* opcm with a slip: the state saved last is altered along with the current
\* one, as if q had pushed a reference
opcm_AltersSavedCopy(r, Operands) ==
  IF Len(Operands) = 6
  THEN LET CTM == Mult(argsToMatrix(Operands), r.e.gState.CTM)
           n == Len(r.e.gStack)
       IN [r EXCEPT !.e.gState.CTM = CTM,
                    !.e.gStack = IF n > 0 THEN [@ EXCEPT ![n] = [CTM |-> CTM]] ELSE @]
  ELSE r

\* case "cm"
opcm(r, Operands) ==
  IF Len(Operands) = 6
  THEN [r EXCEPT !.e.gState.CTM = Mult(argsToMatrix(Operands), r.e.gState.CTM)]
  ELSE r

\* case "BT"
opBT(r) ==
  [r EXCEPT !.e.textState.TM = IdentityMatrix, !.e.textState.TLM = IdentityMatrix]

\* cases "Tc", "Tw", "Tz", "TL"
opTc(r, Operands) ==
  IF Len(Operands) < 1 THEN Panic(r) ELSE [r EXCEPT !.e.textState.CharSpacing = length(Operands[1])]
opTw(r, Operands) ==
  IF Len(Operands) < 1 THEN Panic(r) ELSE [r EXCEPT !.e.textState.WordSpacing = length(Operands[1])]
opTz(r, Operands) ==
  IF Len(Operands) < 1 THEN Panic(r) ELSE [r EXCEPT !.e.textState.Scale = number(Operands[1])]
opTL(r, Operands) ==
  IF Len(Operands) < 1 THEN Panic(r) ELSE [r EXCEPT !.e.textState.Leading = length(Operands[1])]

\* case "TD"
opTD(r, Operands) ==
  IF Len(Operands) < 2 THEN Panic(r)
  ELSE opTd([r EXCEPT !.e.textState.Leading = -length(Operands[2])], Operands)

\* case "Tm"
opTm(r, Operands) ==
  IF Len(Operands) = 6
  THEN [r EXCEPT !.e.textState.TM = argsToMatrix(Operands),
                 !.e.textState.TLM = argsToMatrix(Operands)]
  ELSE r

\* case "TJ"
opTJ(r, Operands) ==
  IF Len(Operands) < 1 THEN Panic(r)
  ELSE IF Operands[1].k = "arr" THEN opTJLoop(r, Operands[1].a, 1) ELSE r

\* case "'"
opQuote(r, Operands) == opTj(opTStar(r), Operands)

\* opOther with a slip: ET ends the text object and resets the text state
opOther_ETResets(r, op) ==
  IF op.Operator = "ET" THEN [r EXCEPT !.e.textState = NewTextState] ELSE r

\* the switch has no default case: any other operator falls out of it
opOther(r, op) == r

processOp(e, op) ==
  LET r == Result(e)
      Operands == op.Operands
  IN CASE op.Operator = "q" -> opq(r)
       [] op.Operator = "Q" -> opQ(r)
       [] op.Operator = "cm" -> opcm(r, Operands)
       [] op.Operator = "BT" -> opBT(r)
       [] op.Operator = "Tc" -> opTc(r, Operands)
       [] op.Operator = "Tw" -> opTw(r, Operands)
       [] op.Operator = "Tz" -> opTz(r, Operands)
       [] op.Operator = "TL" -> opTL(r, Operands)
       [] op.Operator = "Tf" -> opTf(r, Operands)
       [] op.Operator = "Td" -> opTd(r, Operands)
       [] op.Operator = "TD" -> opTD(r, Operands)
       [] op.Operator = "Tm" -> opTm(r, Operands)
       [] op.Operator = "T*" -> opTStar(r)
       [] op.Operator = "Tj" -> opTj(r, Operands)
       [] op.Operator = "TJ" -> opTJ(r, Operands)
       [] op.Operator = "'" -> opQuote(r, Operands)
       [] op.Operator = "\"" -> opDoubleQuote(r, Operands)
       [] OTHER -> opOther(r, op)

(***************************************************************************)
(* The extractor as a state machine: ExtractText hands the operations of   *)
(* the page's content streams to processOp one after the other.  A panic   *)
(* ends the goroutine: nothing is processed after it.                      *)
(*   e        the extractor                                                *)
(*   status   "running", or "panicked" once a processOp call panicked      *)
(*   program  the operations of the stream not yet processed (scripted     *)
(*            runs), script the whole stream                               *)
(*   nops     number of operations processed                               *)
(*   lastOp, pre, shows: the operation processed last, the extractor       *)
(*            before it and the strings shown by it (history)              *)
(*   hist     in graphics runs, every operation processed so far with the  *)
(*            CTM after it (history)                                       *)
(***************************************************************************)
VARIABLES e, status, program, script, nops, lastOp, pre, shows, hist

\* LoadPDF: the pages as the reader gives them, the loop index i, doc.Pages, and
\* where LoadPDF is: "idle", in the "loop", "returned", or "panicked"
VARIABLES doc, pageIndex, Pages, loader

loaderVars == <<doc, pageIndex, Pages, loader>>

extractorVars == <<e, status, program, script, nops, lastOp, pre, shows, hist>>

NoOp == Operation("", <<>>)

\* operand values
Strings == { <<72, 101, 108, 108, 111>>,   \* Hello
             <<65, SP, 66>>,               \* A B
             <<200>>,                      \* one byte >= 0x80
             <<1, 2>>,                     \* a two-byte code of F2's CMap (a space)
             <<65>>,                       \* the low byte of the code 0041 of F2's CMap
             <<0, 65>> }                   \* the code 0041 as two bytes

MaxOps == 3

Nums(s) == [i \in 1..Len(s) |-> Num(s[i])]

\* well-formed operations
GoodOps ==
  { Operation("q", <<>>), Operation("Q", <<>>), Operation("BT", <<>>),
    Operation("ET", <<>>), Operation("T*", <<>>),
    Operation("re", Nums(<<0, 0, 1, 1>>)),
    Operation("cm", Nums(<<2, 0, 0, 2, 5, 7>>)),
    Operation("cm", Nums(<<0, 1, -1, 0, 0, 0>>)),
    Operation("Tm", Nums(<<0, 2, -2, 0, 10, 20>>)),
    Operation("Td", Nums(<<20, 0>>)),
    Operation("Td", Nums(<<0, -6>>)),
    Operation("TD", Nums(<<3, -14>>)),
    Operation("Tc", <<Num(2)>>), Operation("Tw", <<Num(3)>>),
    Operation("Tz", <<Num(50)>>), Operation("TL", <<Num(14)>>),
    Operation("Tf", <<Name("F1"), Num(12)>>),
    Operation("Tf", <<Name("F2"), Num(10)>>),
    Operation("Tf", <<Name("F3"), Num(10)>>),
    Operation("Tf", <<Name("F9"), Num(8)>>),
    Operation("TJ", <<Arr(<<Str(<<72, 101>>), Num(-200), Hex(<<108, 108, 111>>)>>)>>),
    Operation("\"", <<Num(1), Num(2), Str(<<65, SP, 66>>)>>),
    Operation("Do", <<Name("Im1")>>),
    Operation("INLINE_IMAGE", <<Dictionary("W" :> Num(1))>>) }
  \cup { Operation("Tj", <<Str(s)>>) : s \in Strings }
  \cup { Operation("'", <<Str(s)>>) : s \in { <<65, SP, 66>> } }

\* known operators with too few operands or operands of the wrong kind
BadOps ==
  { Operation(o, <<>>) : o \in {"cm", "Tc", "Tw", "Tz", "TL", "Tf", "Td", "TD", "Tm", "Tj", "TJ", "'", "\""} }
  \cup { Operation(o, <<Name("x")>>) : o \in {"Tc", "Tw", "Tz", "TL", "Tf", "Td", "Tj", "TJ", "'", "\""} }
  \cup { Operation(o, <<Name("x"), Bool>>) : o \in {"Tf", "Td", "TD", "\""} }
  \cup { Operation(o, <<Num(1), Num(2), Num(3), Num(4), Num(5)>>) : o \in {"cm", "Tm"} }
  \cup { Operation(o, <<Num(1), Name("x"), Num(0), Bool, Num(5), Str(<<65>>)>>) : o \in {"cm", "Tm"} }
  \cup { Operation("Tf", <<Name("F1")>>),
         Operation("Tf", <<Num(1), Num(2)>>),
         Operation("TJ", <<Arr(<<Name("x"), Bool>>)>>),
         Operation("ET", <<Str(<<65>>), Num(3)>>),
         Operation("tj", <<Str(<<65>>)>>),
         Operation("\"", <<Num(4)>>),
         Operation("\"", <<Num(4), Num(5)>>),
         Operation("\"", <<Name("x"), Bool, Num(7)>>) }

AllOps == GoodOps \cup BadOps

MaxGfxOps == 5

GfxOps ==
  { Operation("q", <<>>), Operation("Q", <<>>),
    Operation("cm", Nums(<<2, 0, 0, 2, 5, 7>>)),
    Operation("cm", Nums(<<0, 1, -1, 0, 0, 0>>)),
    Operation("cm", Nums(<<3, 0, 0, 3, 1>>)),
    Operation("Td", Nums(<<20, 0>>)),
    Operation("Tj", <<Str(<<65, SP, 66>>)>>) }

(***************************************************************************)
(* Scripted streams: BT, a font selection, then optional pieces: a setup,  *)
(* a first position, a first show, a move, a second show, and ET.          *)
(***************************************************************************)
Hello == <<72, 101, 108, 108, 111>>
World == <<87, 111, 114, 108, 100>>

FontPieces ==
  { <<Operation("Tf", <<Name("F1"), Num(12)>>)>>,
    <<Operation("Tf", <<Name("F1"), Num(10)>>)>>,
    <<Operation("Tf", <<Name("F2"), Num(10)>>)>>,
    <<Operation("Tf", <<Name("F3"), Num(10)>>)>>,
    <<Operation("Tf", <<Name("F9"), Num(8)>>)>> }

Bracket ==
  << Operation("q", <<>>), Operation("cm", Nums(<<2, 0, 0, 2, 0, 0>>)),
     Operation("q", <<>>), Operation("cm", Nums(<<3, 0, 0, 3, 0, 0>>)),
     Operation("Q", <<>>), Operation("Q", <<>>) >>

SetupPieces ==
  { <<>>,
    <<Operation("Tc", <<Num(2)>>)>>,
    <<Operation("Tw", <<Num(3)>>)>>,
    <<Operation("Tz", <<Num(50)>>)>>,
    <<Operation("TL", <<Num(14)>>)>>,
    <<Operation("cm", Nums(<<2, 0, 0, 2, 5, 7>>))>>,
    <<Operation("Tm", Nums(<<0, 2, -2, 0, 10, 20>>))>>,
    <<Operation("Tc", <<Num(1)>>), Operation("Tw", <<Num(3)>>), Operation("Tz", <<Num(200)>>),
      Operation("Tm", Nums(<<0, 2, -2, 0, 10, 20>>))>>,
    Bracket }

PosPieces ==
  { <<>>, <<Operation("Td", Nums(<<100, 700>>))>>, <<Operation("Td", Nums(<<0, 0>>))>> }

ShowPieces ==
  { <<Operation("Tj", <<Str(Hello)>>)>>,
    <<Operation("Tj", <<Str(<<65>>)>>)>>,
    <<Operation("Tj", <<Str(<<65, SP>>)>>)>>,
    <<Operation("Tj", <<Str(<<65, NL>>)>>)>>,
    <<Operation("Tj", <<Hex(<<65, SP, 66, 1, 2, 200>>)>>)>>,
    <<Operation("TJ", <<Arr(<<Str(<<72, 101>>), Num(-200), Str(<<108, 108, 111>>)>>)>>)>>,
    <<Operation("TJ", <<Arr(<<Str(<<72, 101>>), Num(100), Str(<<108, 108, 111>>), Num(-50), Name("x")>>)>>)>> }

MovePieces ==
  { <<>>,
    <<Operation("Td", Nums(<<100, 680>>))>>,
    <<Operation("Td", Nums(<<20, 0>>))>>,
    <<Operation("Td", Nums(<<0, -5>>))>>,
    <<Operation("ET", <<>>), Operation("BT", <<>>)>> }

Show2Pieces ==
  { <<>>,
    <<Operation("Tj", <<Str(World)>>)>>,
    <<Operation("Tj", <<Str(<<66>>)>>)>>,
    <<Operation("'", <<Str(<<SP, 66>>)>>)>>,
    <<Operation("\"", <<Num(1), Num(2), Str(<<65, SP, 66>>)>>)>> }

TextProgram(font, setup, pos, show, move, show2) ==
  <<Operation("BT", <<>>)>> \o font \o setup \o pos \o show \o move \o show2
     \o <<Operation("ET", <<>>)>>

TextPrograms ==
  { TextProgram(font, setup, pos, show, move, show2) :
      font \in FontPieces, setup \in SetupPieces, pos \in PosPieces,
      show \in ShowPieces, move \in MovePieces, show2 \in Show2Pieces }


\* the for loop of ExtractText over the operations of a stream, from extractor e0:
\* the extractor when the loop ends or panics
RECURSIVE RunOps(_, _)
RunOps(r, ops) ==
  IF ops = <<>> \/ r.panic THEN r
  ELSE RunOps(processOp(r.e, Head(ops)), Tail(ops))

\* the extractor NewExtractor returns for the page
E0 == NewExtractor(FontDicts).e

ExtractorInit(prog) ==
  /\ e = E0
  /\ status = "running"
  /\ program = prog
  /\ script = prog
  /\ nops = 0
  /\ lastOp = NoOp
  /\ pre = E0
  /\ shows = <<>>
  /\ hist = <<>>

\* one call e.processOp(op)
Process(op) ==
  LET r == processOp(e, op)
  IN /\ status = "running"
     /\ e' = r.e
     /\ status' = IF r.panic THEN "panicked" ELSE "running"
     /\ nops' = nops + 1
     /\ lastOp' = op
     /\ pre' = e
     /\ shows' = r.shows

\* an arbitrary next operation
ProcessAny ==
  /\ nops < MaxOps
  /\ \E op \in AllOps : Process(op)
  /\ UNCHANGED <<program, script, hist>>

\* an arbitrary next operation of a stream of graphics-state operators and text,
\* with the history of the operations and of the CTM after each
ProcessGfx ==
  /\ nops < MaxGfxOps
  /\ \E op \in GfxOps :
        /\ Process(op)
        /\ hist' = Append(hist, [op |-> op, CTM |-> processOp(e, op).e.gState.CTM])
  /\ UNCHANGED <<program, script>>

\* the next operation of the stream
ProcessNext ==
  /\ program # <<>>
  /\ Process(Head(program))
  /\ program' = Tail(program)
  /\ UNCHANGED <<script, hist>>

(***************************************************************************)
(* LoadPDF.  A page as the reader gives it: whether GetPage returns an     *)
(* error, what the entries of /Resources /Font resolve to, the /MediaBox,  *)
(* and the streams of /Contents, each with what Parse returns for it: an   *)
(* error, or its operations.                                               *)
(***************************************************************************)
PdfPage(getPageErr, danglingFont, streams) ==
  [getPageErr |-> getPageErr, danglingFont |-> danglingFont, streams |-> streams,
   MediaBox |-> <<Num(0), Num(0), Num(612), Num(792)>>]

\* what the entries of the page's /Resources /Font resolve to: the dictionaries of
\* FontDicts, and Null for a reference the reader cannot resolve
FontObjs(pdfPage) ==
  [name \in {"F1", "F2", "F3", "F4"} \ (IF pdfPage.danglingFont THEN {} ELSE {"F4"}) |->
     IF name = "F4" THEN NullObject ELSE FontDicts[name]]

Stream(err, ops) == [err |-> err, ops |-> ops]

MaxPages == 3

HelloOps ==
  << Operation("BT", <<>>), Operation("Tf", <<Name("F1"), Num(12)>>),
     Operation("Td", Nums(<<100, 700>>)), Operation("Tj", <<Str(Hello)>>),
     Operation("ET", <<>>) >>

\* a stream that saves the graphics state, scales, and shows text with F2
SavedOps ==
  << Operation("q", <<>>), Operation("cm", Nums(<<2, 0, 0, 2, 5, 7>>)),
     Operation("BT", <<>>), Operation("Tf", <<Name("F2"), Num(10)>>),
     Operation("TL", <<Num(14)>>), Operation("Td", Nums(<<20, 0>>)),
     Operation("Tj", <<Str(<<65, SP, 66>>)>>) >>

\* a stream that goes on in the text object and the graphics state it finds
RestoreOps ==
  << Operation("Td", Nums(<<20, 0>>)), Operation("Tj", <<Str(<<65>>)>>),
     Operation("Q", <<>>), Operation("Td", Nums(<<0, -6>>)),
     Operation("Tj", <<Hex(<<0, 65>>)>>) >>

PageKinds ==
  { PdfPage(FALSE, FALSE, <<Stream(FALSE, HelloOps)>>),
    PdfPage(FALSE, FALSE, <<>>),
    PdfPage(FALSE, FALSE,
            <<Stream(FALSE, HelloOps), Stream(FALSE, <<Operation("'", <<Str(World)>>)>>)>>),
    \* GetPage fails
    PdfPage(TRUE, FALSE, <<Stream(FALSE, HelloOps)>>),
    \* a font entry that resolves to no dictionary
    PdfPage(FALSE, TRUE, <<Stream(FALSE, HelloOps)>>),
    \* the second stream does not parse
    PdfPage(FALSE, FALSE, <<Stream(FALSE, HelloOps), Stream(TRUE, <<>>)>>),
    \* an operator without its operand
    PdfPage(FALSE, FALSE, <<Stream(FALSE, <<Operation("BT", <<>>), Operation("Tc", <<>>)>>)>>),
    \* q and cm in the first stream, the matching Q in the second
    PdfPage(FALSE, FALSE, <<Stream(FALSE, SavedOps), Stream(FALSE, RestoreOps)>>),
    \* three streams, the text object left open across them
    PdfPage(FALSE, FALSE,
            <<Stream(FALSE, SavedOps), Stream(FALSE, RestoreOps),
              Stream(FALSE, <<Operation("T*", <<>>), Operation("Tj", <<Str(Hello)>>)>>)>>),
    \* an empty stream between two others
    PdfPage(FALSE, FALSE,
            <<Stream(FALSE, HelloOps), Stream(FALSE, <<>>),
              Stream(FALSE, <<Operation("Tj", <<Str(World)>>)>>)>>),
    \* the first stream panics, the second is never reached
    PdfPage(FALSE, FALSE,
            <<Stream(FALSE, <<Operation("BT", <<>>), Operation("Tc", <<>>)>>),
              Stream(FALSE, HelloOps)>>) }

RECURSIVE ExtractStreams_FreshPosition(_, _)
\* ExtractStreams with a slip: the last position is reset before each stream
ExtractStreams_FreshPosition(r, streams) ==
  IF streams = <<>> \/ r.panic \/ r.err THEN r
  ELSE IF Head(streams).err THEN [r EXCEPT !.err = TRUE]
  ELSE LET after(done) == [r EXCEPT !.e = done.e, !.panic = done.panic]
           fresh == [r.e EXCEPT !.lastX = 0, !.lastY = 0]
       IN ExtractStreams_FreshPosition(after(RunOps(Result(fresh), Head(streams).ops)),
                                       Tail(streams))

RECURSIVE ExtractStreams(_, _)
\* the loop of ExtractText over the streams: Parse, then processOp for every
\* operation; a parse error returns at once
ExtractStreams(r, streams) ==
  IF streams = <<>> \/ r.panic \/ r.err THEN r
  ELSE IF Head(streams).err THEN [r EXCEPT !.err = TRUE]
  ELSE LET after(done) == [r EXCEPT !.e = done.e, !.panic = done.panic]
       IN ExtractStreams(after(RunOps(Result(r.e), Head(streams).ops)), Tail(streams))

\* ExtractText for extractor e0: the text, an error, or a panic
ExtractText(e0, streams) ==
  LET returned(r) ==
        [text |-> IF r.err \/ r.panic THEN <<>> ELSE r.e.buffer, err |-> r.err, panic |-> r.panic]
  IN returned(ExtractStreams([e |-> e0, panic |-> FALSE, err |-> FALSE], streams))

\* Page with a slip: the page number is the zero-based loop index
Page_ZeroBased(idx, text, pdfPage) ==
  LET mBox == pdfPage.MediaBox
  IN [PageNumber |-> idx,
      Content |-> text,
      CharCount |-> Len(text),
      Width |-> IF Len(mBox) = 4 /\ mBox[3].k = "num" THEN mBox[3].n ELSE 0,
      Height |-> IF Len(mBox) = 4 /\ mBox[4].k = "num" THEN mBox[4].n ELSE 0]

\* the model.Page appended for page index idx
Page(idx, text, pdfPage) ==
  LET mBox == pdfPage.MediaBox
  IN [PageNumber |-> idx + 1,
      Content |-> text,
      CharCount |-> Len(text),
      Width |-> IF Len(mBox) = 4 /\ mBox[3].k = "num" THEN mBox[3].n ELSE 0,
      Height |-> IF Len(mBox) = 4 /\ mBox[4].k = "num" THEN mBox[4].n ELSE 0]

LoaderIdle ==
  /\ doc = <<>>
  /\ pageIndex = 0
  /\ Pages = <<>>
  /\ loader = "idle"

\* LoadPDF up to the page loop, for a document of up to MaxPages pages
LoaderInit ==
  /\ \E n \in 0..MaxPages : doc \in [1..n -> PageKinds]
  /\ pageIndex = 0
  /\ Pages = <<>>
  /\ loader = "loop"

\* one iteration of the page loop
LoadPage ==
  /\ loader = "loop"
  /\ pageIndex < Len(doc)
  /\ LET pdfPage == doc[pageIndex + 1]
         extractor == NewExtractor(FontObjs(pdfPage))
         body(got) ==
           IF pdfPage.getPageErr
           THEN pageIndex' = pageIndex + 1 /\ UNCHANGED <<Pages, loader>>
           ELSE IF extractor.panic \/ got.panic
           THEN loader' = "panicked" /\ UNCHANGED <<pageIndex, Pages>>
           ELSE IF got.err
           THEN pageIndex' = pageIndex + 1 /\ UNCHANGED <<Pages, loader>>
           ELSE /\ Pages' = Append(Pages, Page(pageIndex, got.text, pdfPage))
                /\ pageIndex' = pageIndex + 1
                /\ UNCHANGED loader
     IN body(ExtractText(extractor.e, pdfPage.streams))
  /\ UNCHANGED doc

\* the loop is over: return doc, nil
Return ==
  /\ loader = "loop"
  /\ pageIndex = Len(doc)
  /\ loader' = "returned"
  /\ UNCHANGED <<doc, pageIndex, Pages>>

(***************************************************************************)
(* The content-stream parser (src/pkg/pdf/content.go).  A stream is its    *)
(* bytes; the reader is the number of bytes consumed so far.               *)
(***************************************************************************)
VARIABLES data, pos, operands, eof, ret, emitted, parsed, lexerEOF

parserVars == <<data, pos, operands, eof, ret, emitted, parsed, lexerEOF>>

\* The lexer is not among the sources; it is modelled after the specification of the
\* lexer: byte classes, tokens that end at the next whitespace or delimiter byte
\* (left unread), and the objects they denote.  Of the token forms, names, unsigned
\* integers, literal strings without escapes and keywords are modelled: they are
\* the forms the inputs below are written in.
isWhitespace(b) == b \in {0, 9, 10, 12, 13, 32}
isDelimiter(b) == b \in {40, 41, 60, 62, 91, 93, 123, 125, 47, 37}
isRegular(b) == ~isWhitespace(b) /\ ~isDelimiter(b)
isDigit(b) == b \in 48..57

\* a comment runs from % to the end of the line
RECURSIVE skipComment(_, _)
skipComment(bytes, at) ==
  IF at >= Len(bytes) \/ bytes[at + 1] \in {10, 13} THEN at
  ELSE skipComment(bytes, at + 1)

RECURSIVE skipWhitespace(_, _)
skipWhitespace(bytes, at) ==
  IF at >= Len(bytes) THEN at
  ELSE IF isWhitespace(bytes[at + 1]) THEN skipWhitespace(bytes, at + 1)
  ELSE IF bytes[at + 1] = 37 THEN skipWhitespace(bytes, skipComment(bytes, at + 1))
  ELSE at

\* the reader position after the run of regular bytes that starts at position at
RECURSIVE regularEnd(_, _)
regularEnd(bytes, at) ==
  IF at >= Len(bytes) \/ ~isRegular(bytes[at + 1]) THEN at
  ELSE regularEnd(bytes, at + 1)

\* the position after the ) that closes a literal string entered at depth, or -1
RECURSIVE stringEnd(_, _, _)
stringEnd(bytes, at, depth) ==
  IF at >= Len(bytes) THEN -1
  ELSE IF bytes[at + 1] = 40 THEN stringEnd(bytes, at + 1, depth + 1)
  ELSE IF bytes[at + 1] = 41
       THEN IF depth = 1 THEN at + 1 ELSE stringEnd(bytes, at + 1, depth - 1)
  ELSE stringEnd(bytes, at + 1, depth)

RECURSIVE digitsValue(_)
digitsValue(s) ==
  IF s = <<>> THEN 0 ELSE digitsValue(SubSeq(s, 1, Len(s) - 1)) * 10 + (s[Len(s)] - 48)

\* what a call returns: err is "nil", "EOF" (io.EOF itself) or "error" (any other)
Lexed(err, obj, at) == [err |-> err, obj |-> obj, pos |-> at]

\* ReadObject.  Which error it returns when no byte is left is not in the
\* specification: lexerEOF is either possibility, fixed for a run.
ReadObject(bytes, at) ==
  LET p0 == skipWhitespace(bytes, at)
      c == bytes[p0 + 1]
      stop == regularEnd(bytes, p0 + 1)
      token == SubSeq(bytes, p0 + 1, stop)
      close == stringEnd(bytes, p0 + 1, 1)
  IN IF p0 >= Len(bytes) THEN Lexed(lexerEOF, NullObject, p0)
     ELSE IF c = 47 THEN Lexed("nil", LexName(SubSeq(bytes, p0 + 2, stop)), stop)
     ELSE IF c = 40
          THEN IF close = -1 THEN Lexed("error", NullObject, Len(bytes))
               ELSE Lexed("nil", Str(SubSeq(bytes, p0 + 2, close - 1)), close)
     ELSE IF isDelimiter(c) THEN Lexed("error", NullObject, p0 + 1)
     ELSE IF isDigit(c)
          THEN IF \A k \in 1..Len(token) : isDigit(token[k])
               THEN Lexed("nil", Num(digitsValue(token)), stop)
               ELSE Lexed("error", NullObject, stop)
     ELSE Lexed("nil", Keyword(token), stop)

\* operator names as bytes
BI == <<66, 73>>
ID == <<73, 68>>
INLINE_IMAGE == <<73, 78, 76, 73, 78, 69, 95, 73, 77, 65, 71, 69>>

\* Parse(): every operation of the stream, or the error of the first object
\* that does not lex
RECURSIVE Parse(_, _, _, _)
Parse(bytes, at, ops, pending) ==
  LET object(obj) ==
        IF obj.err # "nil" THEN [err |-> "error", ops |-> <<>>]
        ELSE IF obj.obj.k = "kw"
             THEN Parse(bytes, obj.pos, Append(ops, Operation(obj.obj.s, pending)), <<>>)
        ELSE Parse(bytes, obj.pos, ops, Append(pending, obj.obj))
      peek(p1) ==
        IF p1 >= Len(bytes) THEN [err |-> "nil", ops |-> ops]
        ELSE object(ReadObject(bytes, p1))
  IN peek(skipWhitespace(bytes, at))

\* skipInlineImage, step 1: name/value pairs up to the keyword ID
RECURSIVE imageDict(_, _, _)
imageDict(bytes, at, dict) ==
  LET value(key, val) ==
        IF val.err # "nil" THEN [err |-> val.err, pos |-> val.pos, dict |-> dict]
        ELSE imageDict(bytes, val.pos,
                       [k \in DOMAIN dict \cup {key.obj.s} |->
                          IF k = key.obj.s THEN val.obj ELSE dict[k]])
      pair(key) ==
        IF key.err # "nil" THEN [err |-> key.err, pos |-> key.pos, dict |-> dict]
        ELSE IF key.obj.k = "kw" /\ key.obj.s = ID
             THEN [err |-> "nil", pos |-> key.pos, dict |-> dict]
        ELSE IF key.obj.k # "name" THEN [err |-> "error", pos |-> key.pos, dict |-> dict]
        ELSE value(key, ReadObject(bytes, skipWhitespace(bytes, key.pos)))
  IN pair(ReadObject(bytes, skipWhitespace(bytes, at)))

\* step 2: one end of line after ID (CR, LF or CR LF); any other byte is put back
afterEOL(bytes, at) ==
  IF bytes[at + 1] = 13
  THEN IF at + 1 < Len(bytes) /\ bytes[at + 2] = 10 THEN at + 2 ELSE at + 1
  ELSE IF bytes[at + 1] # 10 THEN at ELSE at + 1

\* step 3: the position after the EI that ends the data, or -1 when the bytes
\* run out first (ReadByte returns io.EOF)
RECURSIVE scanEI(_, _)
scanEI(bytes, at) ==
  IF at >= Len(bytes) THEN -1
  ELSE IF bytes[at + 1] = 69 /\ at + 1 < Len(bytes) /\ bytes[at + 2] = 73
       THEN IF at + 2 >= Len(bytes) \/ isWhitespace(bytes[at + 3]) \/ isDelimiter(bytes[at + 3])
            THEN at + 2
            ELSE scanEI(bytes, at + 2)
  ELSE scanEI(bytes, at + 1)

\* imageOperands with a slip: the dictionary is appended to the operands read before BI
imageOperands_Appended(pending, dict) == Append(pending, Dictionary(dict))

\* p.operands once the dictionary is read: the dictionary alone
imageOperands(pending, dict) == <<Dictionary(dict)>>

\* skipInlineImage: its error, the reader, p.operands, and where the scan began
skipInlineImage(bytes, at, pending) ==
  LET scan(dd, from, end) ==
        IF end = -1
        THEN [err |-> "EOF", pos |-> Len(bytes), operands |-> imageOperands(pending, dd.dict),
              scanFrom |-> from]
        ELSE [err |-> "nil", pos |-> end, operands |-> imageOperands(pending, dd.dict),
              scanFrom |-> from]
      eol(dd, from) == scan(dd, from, scanEI(bytes, from))
      body(dd) ==
        IF dd.err # "nil"
        THEN [err |-> dd.err, pos |-> dd.pos, operands |-> pending, scanFrom |-> -1]
        ELSE IF dd.pos >= Len(bytes)
        THEN [err |-> "EOF", pos |-> dd.pos, operands |-> imageOperands(pending, dd.dict),
              scanFrom |-> -1]
        ELSE eol(dd, afterEOL(bytes, dd.pos))
  IN body(imageDict(bytes, at, <<>>))

NoOperation == Operation(<<>>, <<>>)

\* what Next returns, and the parser it leaves
Returned(kind, op, at, pending, done, scanFrom) ==
  [kind |-> kind, op |-> op, pos |-> at, operands |-> pending, eof |-> done,
   scanFrom |-> scanFrom]

\* p.operands after an operation has been returned
operandsAfterReturn_Kept(pending) == pending
operandsAfterReturn(pending) == <<>>

\* endOfStream with a slip: operands left over at the end of the input are
\* handed out as one last operation
endOfStream_FlushesOperands(at, pending) ==
  IF pending = <<>> THEN Returned("EOF", NoOperation, at, pending, TRUE, -1)
  ELSE Returned("op", Operation(<<>>, pending), at, <<>>, FALSE, -1)

\* no byte is left, or p.eof is set already: p.eof = true; return nil, io.EOF.
\* p.operands stays as it is.
endOfStream(at, pending) == Returned("EOF", NoOperation, at, pending, TRUE, -1)

\* the loop of Next
RECURSIVE NextLoop(_, _, _)
NextLoop(bytes, at, pending) ==
  LET image(img) ==
        IF img.err # "nil"
        THEN Returned(img.err, NoOperation, img.pos, img.operands, FALSE, img.scanFrom)
        ELSE Returned("op", Operation(INLINE_IMAGE, img.operands), img.pos,
                      operandsAfterReturn(img.operands), FALSE, img.scanFrom)
      object(r) ==
        IF r.err # "nil" THEN Returned("error", NoOperation, r.pos, pending, FALSE, -1)
        ELSE IF r.obj.k = "kw"
             THEN IF r.obj.s = BI
                  THEN image(skipInlineImage(bytes, r.pos, pending))
                  ELSE Returned("op", Operation(r.obj.s, pending), r.pos,
                                operandsAfterReturn(pending), FALSE, -1)
        ELSE NextLoop(bytes, r.pos, Append(pending, r.obj))
      peek(p1) ==
        IF p1 >= Len(bytes) THEN endOfStream(p1, pending)
        ELSE object(ReadObject(bytes, p1))
  IN peek(skipWhitespace(bytes, at))

\* the streams: up to MaxChunks of these pieces, one after the other
MaxChunks == 4
Chunks ==
  { <<49, 32>>,             \* 1
    <<47, 87, 32>>,         \* /W
    <<40, 65, 41>>,         \* (A)
    <<84, 106, 32>>,        \* Tj
    <<66, 73, 32>>,         \* BI
    <<73, 68, 10>>,         \* ID and a line feed
    <<69, 73, 32>>,         \* EI
    <<120, 69, 73, 32>>,    \* xEI
    <<69, 73, 120, 32>>,    \* EIx
    <<66, 73, 32, 47, 87, 32, 49, 32, 73, 68, 10>> }   \* BI /W 1 ID and a line feed

RECURSIVE Flatten(_)
Flatten(chunks) == IF chunks = <<>> THEN <<>> ELSE Head(chunks) \o Flatten(Tail(chunks))

Streams == { Flatten(c) : c \in UNION { [1..n -> Chunks] : n \in 0..MaxChunks } }

NoReturn == Returned("none", NoOperation, 0, <<>>, FALSE, -1)
NotParsed == [err |-> "none", ops |-> <<>>]

\* NewContentStreamParser(data)
ParserInit(bytes, eofError) ==
  /\ data = bytes
  /\ pos = 0
  /\ operands = <<>>
  /\ eof = FALSE
  /\ ret = NoReturn
  /\ emitted = <<>>
  /\ parsed = NotParsed
  /\ lexerEOF = eofError

ParserIdle == ParserInit(<<>>, "EOF")

\* one call p.Next(); a caller stops at the first error that is not io.EOF.
\* Parse and Next run on parsers of their own over the same data, so the order
\* of their calls is immaterial: Parse is taken first.
CallNext ==
  LET return(r) ==
        /\ ret' = r
        /\ pos' = r.pos
        /\ operands' = r.operands
        /\ eof' = r.eof
        /\ emitted' = IF r.kind = "op"
                      THEN Append(emitted, [op |-> r.op, from |-> pos, to |-> r.pos,
                                            scanFrom |-> r.scanFrom])
                      ELSE emitted
  IN /\ parsed.err # "none"
     /\ ret.kind # "error"
     /\ return(IF eof THEN endOfStream(pos, operands)
               ELSE NextLoop(data, pos, operands))
     /\ UNCHANGED <<data, parsed, lexerEOF>>

\* NewContentStreamParser(data).Parse()
CallParse ==
  /\ parsed.err = "none"
  /\ parsed' = Parse(data, 0, <<>>, <<>>)
  /\ UNCHANGED <<data, pos, operands, eof, ret, emitted, lexerEOF>>

vars == <<extractorVars, loaderVars, parserVars>>

\* any stream of up to MaxOps operations, well-formed or not
Init == ExtractorInit(<<>>) /\ LoaderIdle /\ ParserIdle
Next == ProcessAny /\ UNCHANGED <<loaderVars, parserVars>>
Spec == Init /\ [][Next]_vars

\* any stream of up to MaxGfxOps graphics-state and text operations
NextGfx == ProcessGfx /\ UNCHANGED <<loaderVars, parserVars>>
SpecGfx == Init /\ [][NextGfx]_vars

\* the streams of TextPrograms
InitText == (\E prog \in TextPrograms : ExtractorInit(prog)) /\ LoaderIdle /\ ParserIdle
NextText == ProcessNext /\ UNCHANGED <<loaderVars, parserVars>>
SpecText == InitText /\ [][NextText]_vars

\* LoadPDF over the documents of up to MaxPages pages
InitLoader == ExtractorInit(<<>>) /\ LoaderInit /\ ParserIdle
NextLoader == (LoadPage \/ Return) /\ UNCHANGED <<extractorVars, parserVars>>
SpecLoader == InitLoader /\ [][NextLoader]_vars

\* the parser over the byte streams of Streams
\* ReadObject is called without a Peek before it only in skipInlineImage, so
\* the error it returns at the end of the input shows only in streams with a BI
InitParser ==
  /\ ExtractorInit(<<>>) /\ LoaderIdle
  /\ \E bytes \in Streams :
        \E eofError \in IF \E k \in 1..(Len(bytes) - 1) : SubSeq(bytes, k, k + 1) = BI
                         THEN {"EOF", "error"} ELSE {"EOF"} :
           ParserInit(bytes, eofError)
NextParser == (CallNext \/ CallParse) /\ UNCHANGED <<extractorVars, loaderVars>>
SpecParser == InitParser /\ [][NextParser]_vars

(***************************************************************************)
(* Properties of the extractor                                             *)
(***************************************************************************)

\* C3 (as claimed): a known operator that arrives with too few operands or with
\* operands of the wrong kind is skipped: processOp returns normally and the
\* whole extractor state is the same as before the operation.
C3_BadOperandsSkipped ==
  lastOp \in BadOps => (status = "running" /\ e = pre)

\* the q and Q of ops are properly nested, starting at depth d
RECURSIVE NestedQ(_, _)
NestedQ(ops, d) ==
  IF ops = <<>> THEN d = 0
  ELSE IF Head(ops).Operator = "q" THEN NestedQ(Tail(ops), d + 1)
  ELSE IF Head(ops).Operator = "Q" THEN d > 0 /\ NestedQ(Tail(ops), d - 1)
  ELSE NestedQ(Tail(ops), d)

\* operations i+1 .. j of the history, and the CTM after the first k operations
HistOps(i, j) == [k \in 1..(j - i) |-> hist[i + k].op]
CTMAfter(k) == IF k = 0 THEN IdentityMatrix ELSE hist[k].CTM

\* the same, and every cm of ops lies inside a q .. Q pair of ops
RECURSIVE Bracketed(_, _)
Bracketed(ops, d) ==
  IF ops = <<>> THEN d = 0
  ELSE IF Head(ops).Operator = "q" THEN Bracketed(Tail(ops), d + 1)
  ELSE IF Head(ops).Operator = "Q" THEN d > 0 /\ Bracketed(Tail(ops), d - 1)
  ELSE IF Head(ops).Operator = "cm" THEN d > 0 /\ Bracketed(Tail(ops), d)
  ELSE Bracketed(Tail(ops), d)

\* C4 (as claimed): over any run of operations in which q and Q are balanced
\* the CTM at the end is the CTM at the start, whatever cm operations occur.
C4_BalancedKeepsCTM ==
  \A i \in 0..Len(hist) : \A j \in i..Len(hist) :
     NestedQ(HistOps(i, j), 0) => CTMAfter(j) = CTMAfter(i)

\* C4 (amended): bracket law.  Over any run of operations in which q and Q are
\* properly nested and every cm lies inside a q .. Q pair of the run, the CTM
\* at the end is the CTM at the start; and when the run holds only q, Q and
\* cm, the text after it yields the same buffer, lastX and lastY as the
\* stream without the run.
C4_BracketLaw ==
  \A i \in 0..Len(hist) : \A j \in i..Len(hist) :
     Bracketed(HistOps(i, j), 0) =>
        /\ CTMAfter(j) = CTMAfter(i)
        /\ (\A k \in 1..(j - i) : HistOps(i, j)[k].Operator \in {"q", "Q", "cm"}) =>
              LET alt == RunOps(Result(E0), HistOps(0, i) \o HistOps(j, Len(hist)))
              IN /\ status = "running" /\ ~alt.panic
                 /\ alt.e.buffer = e.buffer
                 /\ alt.e.lastX = e.lastX
                 /\ alt.e.lastY = e.lastY

\* C4 witness: a nested q .. Q run inside which a cm changed the CTM, started
\* from a CTM that is not the identity and followed by a string show.
C4_Witness ==
  \E i \in 1..Len(hist) : \E j \in (i + 2)..(Len(hist) - 1) :
     /\ Bracketed(HistOps(i, j), 0)
     /\ hist[i + 1].op.Operator = "q"
     /\ CTMAfter(i) # IdentityMatrix
     /\ CTMAfter(j - 1) # CTMAfter(i)
     /\ lastOp.Operator = "Tj" /\ Len(shows) = 1

\* the user-space start of a show: elements 4 and 5 of TM x CTM before it
StartX(b) == Mult(b.textState.TM, b.gState.CTM)[5]
StartY(b) == Mult(b.textState.TM, b.gState.CTM)[6]

\* C6: whitespace reconstruction on every string show: nothing on an empty
\* buffer; else one newline iff |y - lastY| > 0.5 * size; else one space iff
\* x - lastX > threshold and the buffer ends in neither newline nor space;
\* never more than one whitespace character.
C6_Whitespace ==
  \A k \in 1..Len(shows) :
     LET b == shows[k].before
         a == shows[k].after
         decoded == Decode(b.textState, shows[k].obj.s)
         newline == Abs(StartY(b) - b.lastY) * 2 > b.textState.FontSize * Unit
         space == /\ StartX(b) - b.lastX > Threshold(b.textState)
                  /\ b.buffer[Len(b.buffer)] \notin {NL, SP}
     IN /\ b.buffer = <<>> => a.buffer = decoded
        /\ (b.buffer # <<>> /\ newline) => a.buffer = b.buffer \o <<NL>> \o decoded
        /\ (b.buffer # <<>> /\ ~newline /\ space) => a.buffer = b.buffer \o <<SP>> \o decoded
        /\ (b.buffer # <<>> /\ ~newline /\ ~space) => a.buffer = b.buffer \o decoded

\* C6 witnesses: within one run a newline was inserted, a space was inserted,
\* and a space was withheld because the buffer already ended in one.
C6_Witness ==
  /\ Len(shows) = 1
  /\ shows[1].before.buffer # <<>>
  /\ LET b == shows[1].before
     IN /\ StartX(b) - b.lastX > Threshold(b.textState)
        /\ Abs(StartY(b) - b.lastY) * 2 <= b.textState.FontSize * Unit
        /\ b.buffer[Len(b.buffer)] = SP
        /\ b.textState.Font = "F1"

\* the stream BT /F1 10 Tf [(He) -200 (llo)] TJ ET
HeLloProgram ==
  TextProgram(<<Operation("Tf", <<Name("F1"), Num(10)>>)>>, <<>>, <<>>,
              <<Operation("TJ", <<Arr(<<Str(<<72, 101>>), Num(-200), Str(<<108, 108, 111>>)>>)>>)>>,
              <<>>, <<>>)

\* C7 (as claimed): BT /F1 10 Tf [(He) -200 (llo)] TJ ET yields the content
\* "Hello", no space between the two pieces, 5 characters.
C7_HelloNoSpace ==
  (script = HeLloProgram /\ program = <<>>) => (e.buffer = Hello /\ Len(e.buffer) = 5)

\* C7 (amended): the stream yields "He llo", 6 characters: 'He' ends at x = 10,
\* the -200 adjustment moves the start of 'llo' to x = 12, and the gap of 2
\* exceeds the space threshold 0.5 * 250/1000 * 10 = 1.25, so one space is
\* inserted between the two pieces.
C7_HeLloOneSpace ==
  script = HeLloProgram =>
     /\ program = <<>> => (e.buffer = <<72, 101, SP, 108, 108, 111>> /\ Len(e.buffer) = 6)
     /\ lastOp.Operator = "TJ" =>
           /\ Len(shows) = 2
           /\ shows[1].after.lastX = 10 * Unit
           /\ StartX(shows[2].before) = 12 * Unit
           /\ 4 * Threshold(shows[2].before.textState) = 5 * Unit
           /\ shows[2].after.buffer = <<72, 101, SP, 108, 108, 111>>

\* C7 witness: the stream has been processed to its end
C7_Witness == script = HeLloProgram /\ program = <<>> /\ status = "running"

RECURSIVE SumOver(_, _, _)
\* the sum of f[s[i]], or dflt where f has no value, over i = 1 .. n
SumOver(f, s, dflt) ==
  IF s = <<>> THEN 0
  ELSE (IF Head(s) \in DOMAIN f THEN f[Head(s)] ELSE dflt) + SumOver(f, Tail(s), dflt)

\* the advance width of a show as the specification states it, as a length:
\* with a widths table (sum of widths / 1000 * size + char_spacing * bytes
\* + word_spacing * spaces of the decoded string) * scale / 100, else
\* decoded length * size * 0.5 * scale / 100
AdvanceWidth(ts, raw) ==
  LET decoded == Decode(ts, raw)
      spaces == Cardinality({ i \in 1..Len(decoded) : decoded[i] = SP })
  IN IF ts.Font # NoFont /\ fonts[ts.Font].Widths # <<>>
     THEN (((SumOver(fonts[ts.Font].Widths, raw, fonts[ts.Font].MissingW) * ts.FontSize * Unit) \div 1000
           + ts.CharSpacing * Len(raw) + ts.WordSpacing * spaces) * ts.Scale) \div 100
     ELSE (Len(decoded) * ts.FontSize * Unit * ts.Scale) \div 200

\* C8: every string show moves TM[4], TM[5] by advance_width * TM[0] and
\* advance_width * TM[1], and leaves TM[0..3] and TLM unchanged.
C8_TMAdvance ==
  \A k \in 1..Len(shows) :
     LET b == shows[k].before.textState
         a == shows[k].after.textState
         w == AdvanceWidth(b, shows[k].obj.s)
     IN /\ a.TM[5] = b.TM[5] + w * b.TM[1]
        /\ a.TM[6] = b.TM[6] + w * b.TM[2]
        /\ \A i \in 1..4 : a.TM[i] = b.TM[i]
        /\ a.TLM = b.TLM

\* C8 witness: a show in a rotated and scaled text matrix, with a widths table,
\* character and word spacing, a scale other than 100 and a space in the text
C8_Witness ==
  \E k \in 1..Len(shows) :
     LET b == shows[k].before.textState
     IN /\ b.TM[2] # 0
        /\ b.Font = "F1" /\ b.CharSpacing # 0 /\ b.WordSpacing # 0 /\ b.Scale = 200
        /\ SP \in { shows[k].obj.s[i] : i \in 1..Len(shows[k].obj.s) }
        /\ AdvanceWidth(b, shows[k].obj.s) > 0

\* the stream BT /F1 12 Tf 100 700 Td (Hello) Tj ET
HelloProgram ==
  TextProgram(<<Operation("Tf", <<Name("F1"), Num(12)>>)>>, <<>>,
              <<Operation("Td", Nums(<<100, 700>>))>>,
              <<Operation("Tj", <<Str(Hello)>>)>>, <<>>, <<>>)

\* C9: after every string show lastX is the user-space x of the string's start
\* plus the advance width and lastY the user-space y of its start; the stream
\* BT /F1 12 Tf 100 700 Td (Hello) Tj ET ends with "Hello", lastX = 130,
\* lastY = 700; an operation that shows no string leaves lastX and lastY alone.
C9_LastPosition ==
  /\ \A k \in 1..Len(shows) :
        LET b == shows[k].before
            a == shows[k].after
        IN /\ a.lastX = StartX(b) + AdvanceWidth(b.textState, shows[k].obj.s)
           /\ a.lastY = StartY(b)
  /\ shows # <<>> => (e.lastX = shows[Len(shows)].after.lastX /\ e.lastY = shows[Len(shows)].after.lastY)
  /\ shows = <<>> => (e.lastX = pre.lastX /\ e.lastY = pre.lastY)
  /\ (script = HelloProgram /\ program = <<>>) =>
        (e.buffer = Hello /\ e.lastX = 130 * Unit /\ e.lastY = 700 * Unit)

\* C9 witness: a second show under a CTM other than the identity, whose start
\* in user space is not its text-space position
C9_Witness ==
  /\ Len(shows) = 1
  /\ shows[1].before.buffer # <<>>
  /\ shows[1].before.gState.CTM # IdentityMatrix
  /\ StartX(shows[1].before) # shows[1].before.textState.TM[5]
  /\ AdvanceWidth(shows[1].before.textState, shows[1].obj.s) > 0

\* the example stream of C9 processed to its end
C9_ExampleDone == script = HelloProgram /\ program = <<>> /\ status = "running"

(***************************************************************************)
(* Properties of LoadPDF                                                   *)
(***************************************************************************)

\* a page fails in one of the ways C1 lists: GetPage returns an error, the
\* extractor cannot be constructed or its fonts loaded, a stream does not parse
PageFails(pdfPage) ==
  \/ pdfPage.getPageErr
  \/ \E name \in DOMAIN FontObjs(pdfPage) : FontObjs(pdfPage)[name].k # "dict"
  \/ \E k \in 1..Len(pdfPage.streams) : pdfPage.streams[k].err

\* a page whose operations make processOp panic
PagePanics(pdfPage) ==
  ~PageFails(pdfPage) /\ ExtractText(NewExtractor(FontObjs(pdfPage)).e, pdfPage.streams).panic

\* C1 (as claimed): whatever pages fail (GetPage error, failure constructing
\* the extractor or loading its fonts, content-stream parse error), LoadPDF
\* completes and returns exactly one page entry for every page that does not fail.
C1_FailuresSkipOnlyTheirPage ==
  (\A k \in 1..Len(doc) : ~PagePanics(doc[k])) =>
     /\ loader # "panicked"
     /\ loader = "returned" =>
          /\ \A k \in 1..Len(doc) :
                Cardinality({ n \in 1..Len(Pages) : Pages[n].PageNumber = k })
                  = IF PageFails(doc[k]) THEN 0 ELSE 1
          /\ \A n \in 1..Len(Pages) : Pages[n].PageNumber \in 1..Len(doc)

\* C2: at every point of the page loop and in the returned record there are at
\* most NumPages pages, and their page numbers are strictly increasing and lie
\* in 1..NumPages.
C2_PageNumbersIncrease ==
  /\ Len(Pages) <= Len(doc)
  /\ \A n \in 1..Len(Pages) : Pages[n].PageNumber \in 1..Len(doc)
  /\ \A n \in 1..(Len(Pages) - 1) : Pages[n].PageNumber < Pages[n + 1].PageNumber

\* C2 witness: a returned record in which a skipped page left a gap
C2_Witness ==
  /\ loader = "returned"
  /\ Len(Pages) = 2
  /\ Pages[1].PageNumber = 1 /\ Pages[2].PageNumber = 3
  /\ doc[2].getPageErr

(***************************************************************************)
(* Properties of the content-stream parser                                 *)
(***************************************************************************)

\* the position after the first EI, scanning from position from, that is both
\* preceded by a whitespace or delimiter byte and followed by one or by the end of
\* the input; -1 when there is none
MarkerAt(bytes, q) ==
  /\ q >= 3
  /\ bytes[q - 1] = 69 /\ bytes[q] = 73
  /\ isWhitespace(bytes[q - 2]) \/ isDelimiter(bytes[q - 2])
  /\ q = Len(bytes) \/ isWhitespace(bytes[q + 1]) \/ isDelimiter(bytes[q + 1])

FirstMarker(bytes, from) ==
  LET ends == { q \in (from + 2)..Len(bytes) : MarkerAt(bytes, q) }
  IN IF ends = {} THEN -1 ELSE CHOOSE q \in ends : \A q2 \in ends : q <= q2

\* C5 (as claimed): the scan of inline-image data stops at the first EI that is
\* preceded by a whitespace or delimiter byte and followed by one (or by the end
\* of the input): an INLINE_IMAGE operation is returned only with the reader
\* right after that marker, so the lexer is never handed a byte of image data.
C5_ScanStopsAtDelimitedEI ==
  \A k \in 1..Len(emitted) :
    emitted[k].op.Operator = INLINE_IMAGE =>
      emitted[k].to = FirstMarker(data, emitted[k].scanFrom)

\* the objects read from position from up to and including the first keyword
RECURSIVE ReadToKeyword(_, _)
ReadToKeyword(bytes, from) ==
  LET rest(r) ==
        IF r.err # "nil" THEN <<>>
        ELSE IF r.obj.k = "kw" THEN <<r.obj>>
        ELSE <<r.obj>> \o ReadToKeyword(bytes, r.pos)
  IN rest(ReadObject(bytes, from))

\* the end of the operator that precedes the k-th returned operation
PreviousEnd(k) == IF k = 1 THEN 0 ELSE emitted[k - 1].to

\* the operations of the stream, operator after operator
RECURSIVE Segments(_, _)
Segments(bytes, from) ==
  LET RECURSIVE endOf(_, _)
      endOf(at, m) == IF m = 0 THEN at ELSE endOf(ReadObject(bytes, at).pos, m - 1)
      segment(objs, n) ==
        IF n = 0 \/ objs[n].k # "kw" THEN <<>>
        ELSE <<Operation(objs[n].s, SubSeq(objs, 1, n - 1))>> \o Segments(bytes, endOf(from, n))
      read(objs) == segment(objs, Len(objs))
  IN read(ReadToKeyword(bytes, from))

\* C10: an ordinary operation returned by Next, and every operation of Parse,
\* carries exactly the non-keyword objects read since the end of the previous
\* operator, in stream order; right after Next has returned an operation
\* (INLINE_IMAGE included) the accumulator is empty.
C10_OperandAccumulation ==
  /\ \A k \in 1..Len(emitted) :
       LET read(objs) ==
             /\ objs # <<>>
             /\ emitted[k].op.Operator = objs[Len(objs)].s
             /\ emitted[k].op.Operands = SubSeq(objs, 1, Len(objs) - 1)
       IN /\ emitted[k].from = PreviousEnd(k)
          /\ emitted[k].op.Operator # INLINE_IMAGE =>
               read(ReadToKeyword(data, PreviousEnd(k)))
  /\ ret.kind = "op" => operands = <<>>
  /\ parsed.err = "nil" => parsed.ops = Segments(data, 0)

\* an operation with operands, ordinary or INLINE_IMAGE, has been returned, and an
\* ordinary operation after it; Parse has returned two operations with operands
C10_Witness ==
  /\ Len(emitted) >= 2
  /\ emitted[1].op.Operands # <<>>
  /\ emitted[2].op.Operator # INLINE_IMAGE
  /\ emitted[2].op.Operands # emitted[1].op.Operands
  /\ parsed.err = "nil" /\ Len(parsed.ops) >= 2
  /\ parsed.ops[1].Operands # <<>> /\ parsed.ops[2].Operands # <<>>

\* the same after an inline image
C10_WitnessImage ==
  /\ Len(emitted) >= 2
  /\ emitted[1].op.Operator = INLINE_IMAGE
  /\ emitted[2].op.Operator # INLINE_IMAGE

(***************************************************************************)
(* Properties of decoding                                                  *)
(***************************************************************************)

\* the code a CMap key stands for, and its two bytes
KeyCode(key) == key[1] * 4096 + key[2] * 256 + key[3] * 16 + key[4]
CodeAlone(raw, key) ==
  \/ raw = << KeyCode(key) \div 256, KeyCode(key) % 256 >>
  \/ KeyCode(key) < 256 /\ raw = << KeyCode(key) >>

\* what a show wrote to the buffer after the whitespace it inserted
ShownText(sh) ==
  SubSeq(sh.after.buffer,
         Len(sh.before.buffer) + Len(Whitespace(sh.before, StartX(sh.before), StartY(sh.before))) + 1,
         Len(sh.after.buffer))

\* the one character with code point b, in UTF-8
OneCharacter(b) == IF b <= 127 THEN <<b>> ELSE << 192 + (b \div 64), 128 + (b % 64) >>

\* the CMap a show decodes with, when it is there and not empty
UsesCMap(sh) ==
  /\ sh.before.textState.Font # NoFont
  /\ ~fonts[sh.before.textState.Font].CMap.isNil
  /\ DOMAIN fonts[sh.before.textState.Font].CMap.Map # {}

\* C11: CMap round trip.  With a font whose CMap is not empty, a show of one
\* code of the CMap alone (its two bytes, or its low byte when the high byte
\* is zero) appends exactly the string mapped to it, and a show of one byte
\* that has no entry appends that byte as one character.
C11_CMapRoundTrip ==
  \A k \in 1..Len(shows) :
    UsesCMap(shows[k]) =>
      LET map == fonts[shows[k].before.textState.Font].CMap.Map
          raw == shows[k].obj.s
      IN /\ \A key \in DOMAIN map : CodeAlone(raw, key) => ShownText(shows[k]) = map[key]
         /\ (Len(raw) = 1 /\ Sprintf04X(raw[1]) \notin DOMAIN map) =>
               ShownText(shows[k]) = OneCharacter(raw[1])

\* the example: with 0041 -> "B", Tj of the single byte 0x41 yields "B"
C11_Witness ==
  /\ lastOp = Operation("Tj", <<Str(<<65>>)>>)
  /\ Len(shows) = 1 /\ UsesCMap(shows[1])
  /\ pre.buffer = <<>> /\ e.buffer = <<66>>

\* a two-byte code, and a byte without entry, shown alone
C11_WitnessTwoBytes ==
  /\ lastOp = Operation("Tj", <<Str(<<1, 2>>)>>)
  /\ Len(shows) = 1 /\ UsesCMap(shows[1])
  /\ pre.buffer = <<>> /\ e.buffer = <<SP>>
C11_WitnessNoEntry ==
  /\ lastOp = Operation("Tj", <<Str(<<200>>)>>)
  /\ Len(shows) = 1 /\ UsesCMap(shows[1])
  /\ pre.buffer = <<>> /\ e.buffer = <<195, 136>>

(***************************************************************************)
(* Properties of ExtractText within LoadPDF                                *)
(***************************************************************************)

\* a page on which ExtractText returns the error of a stream that does not parse
ParseErrorInPage(pdfPage) ==
  /\ ~pdfPage.getPageErr
  /\ ~NewExtractor(FontObjs(pdfPage)).panic
  /\ ExtractText(NewExtractor(FontObjs(pdfPage)).e, pdfPage.streams).err

\* the buffer of the extractor when ExtractText returns
BufferAtReturn(pdfPage) ==
  ExtractStreams([e |-> NewExtractor(FontObjs(pdfPage)).e, panic |-> FALSE, err |-> FALSE],
                 pdfPage.streams).e.buffer

\* C12 (as claimed): when a stream of a page does not parse, the text the
\* earlier operations put into the buffer is kept in the result: the page's
\* entry holds the buffer as it was at the failure.
C12_PartialTextKept ==
  \A k \in 1..pageIndex :
    ParseErrorInPage(doc[k]) =>
      \E n \in 1..Len(Pages) :
        Pages[n].PageNumber = k /\ Pages[n].Content = BufferAtReturn(doc[k])

\* the font of a show has no CMap (ParseCMap failed), or an empty one
FailedCMap(sh) ==
  sh.before.textState.Font # NoFont /\ fonts[sh.before.textState.Font].CMap.isNil
EmptyCMap(sh) ==
  /\ sh.before.textState.Font # NoFont
  /\ ~fonts[sh.before.textState.Font].CMap.isNil
  /\ DOMAIN fonts[sh.before.textState.Font].CMap.Map = {}

\* C13: a ToUnicode stream that does not parse is swallowed: the font is
\* loaded, the extractor is constructed, and every string shown with the
\* font is written byte for byte, as with a font whose CMap is empty, and
\* the show does not panic.
C13_FailedCMapIsByteIdentity ==
  /\ ~NewExtractor(FontDicts).panic
  /\ \A name \in DOMAIN FontDicts :
        (FontDicts[name].ToUnicode = "stream" /\ FontDicts[name].parsed.err) =>
           name \in DOMAIN fonts /\ fonts[name].CMap.isNil
  /\ \A k \in 1..Len(shows) :
        (FailedCMap(shows[k]) \/ EmptyCMap(shows[k])) => ShownText(shows[k]) = shows[k].obj.s
  /\ (lastOp.Operator \in {"Tj", "'"} /\ Len(lastOp.Operands) = 1
        /\ lastOp.Operands[1].k \in {"str", "hex"}
        /\ e.textState.Font # NoFont /\ fonts[e.textState.Font].CMap.isNil) =>
          status = "running" /\ Len(shows) = 1

\* the byte 0x41, for which the failed CMap had read an entry, shown with F3
C13_Witness ==
  /\ lastOp = Operation("Tj", <<Str(<<65>>)>>)
  /\ Len(shows) = 1 /\ FailedCMap(shows[1])
  /\ status = "running"
  /\ pre.buffer = <<>> /\ e.buffer = <<65>>

(***************************************************************************)
(* Frame properties of processOp                                           *)
(***************************************************************************)
IsPrefix(s, t) == Len(s) <= Len(t) /\ SubSeq(t, 1, Len(s)) = s

ShowOperators == {"Tj", "TJ", "'", "\""}

\* C14: the buffer is append-only: over every operation the buffer before is a
\* prefix of the buffer after, and an operation that is not a string show
\* (Tj, TJ, ', ") leaves it as it is.
C14_BufferAppendOnly ==
  [][ /\ IsPrefix(e.buffer, e'.buffer)
      /\ lastOp'.Operator \notin ShowOperators => e'.buffer = e.buffer ]_vars

\* a show has extended a buffer that was not empty
C14_Witness ==
  /\ lastOp.Operator = "TJ"
  /\ Len(pre.buffer) > 0
  /\ Len(e.buffer) > Len(pre.buffer)
  /\ IsPrefix(pre.buffer, e.buffer)

\* the reader after n objects read from position at
RECURSIVE AfterObjects(_, _, _)
AfterObjects(bytes, at, n) ==
  IF n = 0 THEN at ELSE AfterObjects(bytes, ReadObject(bytes, at).pos, n - 1)

\* the name/value pairs read from position at up to the next keyword
RECURSIVE PairsToKeyword(_, _)
PairsToKeyword(bytes, at) ==
  LET pair(key, val) ==
        IF val.err # "nil" THEN <<>>
        ELSE <<[key |-> key.obj.s, val |-> val.obj]>> \o PairsToKeyword(bytes, val.pos)
      name(key) ==
        IF key.err # "nil" \/ key.obj.k # "name" THEN <<>>
        ELSE pair(key, ReadObject(bytes, key.pos))
  IN name(ReadObject(bytes, at))

\* the dictionary of a sequence of pairs: the last value given to each key
DictOf(pairs) ==
  [key \in { pairs[i].key : i \in 1..Len(pairs) } |->
     pairs[CHOOSE i \in 1..Len(pairs) :
             pairs[i].key = key /\ \A j \in (i + 1)..Len(pairs) : pairs[j].key # key].val]

\* C15: a BI ... ID ... EI construct yields one operation INLINE_IMAGE whose
\* only operand is the dictionary of the name/value pairs between BI and ID,
\* whatever operands were read before BI; the reader is then right after the
\* EI marker, and the next operation is read from there.
C15_InlineImageOperation ==
  \A k \in 1..Len(emitted) :
    emitted[k].op.Operator = INLINE_IMAGE =>
      LET lead == ReadToKeyword(data, emitted[k].from)
          to == emitted[k].to
      IN /\ lead # <<>> /\ lead[Len(lead)] = Keyword(BI)
         /\ emitted[k].op.Operands =
              <<Dictionary(DictOf(PairsToKeyword(data,
                                     AfterObjects(data, emitted[k].from, Len(lead)))))>>
         /\ data[to - 1] = 69 /\ data[to] = 73
         /\ to = Len(data) \/ isWhitespace(data[to + 1]) \/ isDelimiter(data[to + 1])
         /\ \A j \in 1..Len(emitted) : j # k => emitted[j].from # emitted[k].from
         /\ k < Len(emitted) =>
              /\ emitted[k + 1].from = to
              /\ emitted[k + 1].op.Operator # INLINE_IMAGE =>
                   LET objs == ReadToKeyword(data, to)
                   IN /\ emitted[k + 1].op.Operator = objs[Len(objs)].s
                      /\ emitted[k + 1].op.Operands = SubSeq(objs, 1, Len(objs) - 1)

\* an inline image with a dictionary entry, read after an operand, and an
\* operation read after it
C15_Witness ==
  /\ Len(emitted) = 2
  /\ emitted[1].op.Operator = INLINE_IMAGE
  /\ Len(ReadToKeyword(data, 0)) = 2
  /\ emitted[1].op.Operands = <<Dictionary(<<87>> :> Num(1))>>
  /\ emitted[2].op = Operation(<<84, 106>>, <<>>)

\* the operators processOp has a case for
KnownOperators ==
  {"q", "Q", "cm", "BT", "Tc", "Tw", "Tz", "TL", "Tf", "Td", "TD", "Tm", "T*",
   "Tj", "TJ", "'", "\""}

\* C16: an operation whose operator processOp has no case for (ET, re, Do,
\* INLINE_IMAGE, ...) leaves the whole extractor as it was, whatever its
\* operands, and does not panic; in particular the text state set before an
\* ET is still there after it.
C16_OtherOperatorsNoOp ==
  (nops > 0 /\ lastOp.Operator \notin KnownOperators) =>
     /\ e = pre
     /\ status = "running"
     /\ shows = <<>>

\* an ET after a font was selected and the text position moved: both are kept
C16_Witness ==
  /\ lastOp.Operator = "ET"
  /\ pre.textState.Font # NoFont
  /\ pre.textState.TM # IdentityMatrix
  /\ e.textState = pre.textState

\* an operator without a case that comes with operands
C16_WitnessOperands ==
  /\ lastOp.Operator \in {"Do", "INLINE_IMAGE", "re"}
  /\ lastOp.Operands # <<>>
  /\ pre # E0
  /\ e = pre

\* C17: after Tf /Name size the font is the font of that name in the page's
\* font table if there is one and the font selected before otherwise (none
\* if none was selected); the font size is the given size in both cases; and
\* nothing else of the extractor has changed.
C17_TfSetsFontAndSize ==
  (/\ nops > 0
   /\ lastOp.Operator = "Tf"
   /\ Len(lastOp.Operands) = 2
   /\ lastOp.Operands[1].k = "name") =>
     /\ status = "running"
     /\ e.textState.Font = IF lastOp.Operands[1].nm \in DOMAIN FontDicts
                           THEN lastOp.Operands[1].nm
                           ELSE pre.textState.Font
     /\ e.textState.FontSize = number(lastOp.Operands[2])
     /\ e = [pre EXCEPT !.textState.Font = e.textState.Font,
                        !.textState.FontSize = e.textState.FontSize]

\* Tf with an unknown name after a font was selected and text was shown: the
\* font stays, the size changes
C17_Witness ==
  /\ lastOp = Operation("Tf", <<Name("F9"), Num(8)>>)
  /\ pre.textState.Font = "F1"
  /\ pre.textState.FontSize = 12
  /\ e.textState.Font = "F1"
  /\ e.textState.FontSize = 8

\* Tf with an unknown name before any font was selected: the font stays unset
C17_WitnessUnset ==
  /\ lastOp = Operation("Tf", <<Name("F9"), Num(8)>>)
  /\ pre.textState.Font = NoFont
  /\ pre.textState.TM # IdentityMatrix
  /\ e.textState.Font = NoFont
  /\ e.textState.FontSize = 8

\* Tf with a known name replaces the font selected before
C17_WitnessKnown ==
  /\ lastOp = Operation("Tf", <<Name("F2"), Num(10)>>)
  /\ pre.textState.Font = "F1"
  /\ e.textState.Font = "F2"
  /\ e.textState.FontSize = 10

\* the operators that set the text-line matrix, and the two that perform a T*
LineOperators == {"BT", "Td", "TD", "Tm", "T*"}
NextLineShows == {"'", "\""}

\* the text-line matrix a T* makes of the extractor x
NextLine(x) == Mult(<<1, 0, 0, 1, 0, -x.textState.Leading>>, x.textState.TLM)

\* C18: TM = TLM right after BT, Td, TD, Tm with six operands and T*; Td and
\* T* make the new TLM from the TLM before, the start of the current line,
\* and not from TM; no call of handleText changes TLM; an operation other
\* than those five changes TLM only by the T* that ' and " perform before
\* their show; and TD tx ty leaves the extractor as TL -ty followed by
\* Td tx ty would.
C18_TextLineMatrix ==
  (nops > 0 /\ status = "running") =>
     LET op == lastOp.Operator
         args == lastOp.Operands
         ts == e.textState
     IN /\ (op \in {"BT", "Td", "TD", "T*"} \/ (op = "Tm" /\ Len(args) = 6)) =>
             ts.TM = ts.TLM
        /\ op \in {"Td", "TD"} =>
             ts.TLM = Mult(<<1, 0, 0, 1, length(args[1]), length(args[2])>>, pre.textState.TLM)
        /\ op = "T*" => ts.TLM = NextLine(pre)
        /\ \A k \in 1..Len(shows) :
             shows[k].after.textState.TLM = shows[k].before.textState.TLM
        /\ op \in NextLineShows => ts.TLM = NextLine(pre)
        /\ op \notin LineOperators \cup NextLineShows => ts.TLM = pre.textState.TLM
        /\ op = "TD" =>
             e = RunOps(Result(pre), <<Operation("TL", <<Num(-number(args[2]))>>),
                                       Operation("Td", args)>>).e

\* a Td after text was shown: the new line starts from the start of the
\* line of that text, which is not where the text ended
C18_Witness ==
  /\ status = "running"
  /\ lastOp = Operation("Td", Nums(<<0, -6>>))
  /\ pre.textState.TM # pre.textState.TLM
  /\ e.textState.TM = e.textState.TLM
  /\ e.textState.TLM = Mult(<<1, 0, 0, 1, 0, -6 * Unit>>, pre.textState.TLM)
  /\ e.textState.TLM # Mult(<<1, 0, 0, 1, 0, -6 * Unit>>, pre.textState.TM)

\* a show that moves TM away from TLM
C18_WitnessShow ==
  /\ lastOp.Operator \in {"Tj", "TJ"}
  /\ pre.textState.TM = pre.textState.TLM
  /\ e.textState.TM # pre.textState.TM
  /\ e.textState.TLM = pre.textState.TLM

\* a TD after a leading was set and text was shown
C18_WitnessTD ==
  /\ lastOp = Operation("TD", Nums(<<3, -14>>))
  /\ pre.textState.TM # pre.textState.TLM
  /\ pre.textState.Leading # 14 * Unit
  /\ e.textState.Leading = 14 * Unit

\* a ' with a non-zero leading: TLM moves by the T* it performs
C18_WitnessQuote ==
  /\ lastOp.Operator = "'"
  /\ pre.textState.Leading # 0
  /\ e.textState.TLM # pre.textState.TLM
  /\ e.textState.TM # e.textState.TLM

\* the graphics states saved after the first k operations of the history, the
\* most recent last: q saves the CTM current before it, Q drops the last
RECURSIVE SavedAfter(_)
SavedAfter(k) ==
  IF k = 0 THEN <<>>
  ELSE LET saved == SavedAfter(k - 1)
       IN IF hist[k].op.Operator = "q" THEN Append(saved, [CTM |-> CTMAfter(k - 1)])
          ELSE IF hist[k].op.Operator = "Q" /\ saved # <<>>
               THEN SubSeq(saved, 1, Len(saved) - 1)
          ELSE saved

\* the number of q among the first k operations, and the number of Q among
\* them that found a state to restore
RECURSIVE CountPush(_)
CountPush(k) ==
  IF k = 0 THEN 0
  ELSE CountPush(k - 1) + (IF hist[k].op.Operator = "q" THEN 1 ELSE 0)
RECURSIVE CountPop(_)
CountPop(k) ==
  IF k = 0 THEN 0
  ELSE CountPop(k - 1)
       + (IF hist[k].op.Operator = "Q" /\ CountPush(k - 1) > CountPop(k - 1) THEN 1 ELSE 0)

\* C19: over any sequence of operations the graphics stack holds, oldest
\* first, the graphics state that was current at each q not yet undone, as
\* it was then whatever cm came later; Q makes the state saved last current
\* and removes it, and changes nothing when the stack is empty; the depth is
\* the number of q minus the number of Q that found a non-empty stack; and q
\* and Q leave the text state, the buffer, lastX and lastY alone.
C19_GraphicsStack ==
  LET n == Len(hist)
  IN /\ e.gStack = SavedAfter(n)
     /\ Len(e.gStack) = CountPush(n) - CountPop(n)
     /\ Len(e.gStack) >= 0
     /\ (n > 0 /\ lastOp.Operator = "q") =>
           e = [pre EXCEPT !.gStack = Append(pre.gStack, pre.gState)]
     /\ (n > 0 /\ lastOp.Operator = "Q" /\ pre.gStack # <<>>) =>
           e = [pre EXCEPT !.gState = pre.gStack[Len(pre.gStack)],
                           !.gStack = SubSeq(pre.gStack, 1, Len(pre.gStack) - 1)]
     /\ (n > 0 /\ lastOp.Operator = "Q" /\ pre.gStack = <<>>) => e = pre
     /\ (n > 0 /\ lastOp.Operator \notin {"q", "Q"}) => e.gStack = pre.gStack

\* q, cm, q, cm, Q: the inner Q restores the CTM saved by the second q, made
\* by the first cm, and leaves the state saved by the first q on the stack
C19_Witness ==
  /\ Len(hist) = 5
  /\ lastOp.Operator = "Q"
  /\ Len(pre.gStack) = 2
  /\ pre.gStack[1].CTM = IdentityMatrix
  /\ pre.gStack[2].CTM # IdentityMatrix
  /\ pre.gState # pre.gStack[2]
  /\ e.gState = pre.gStack[2]
  /\ e.gStack = <<pre.gStack[1]>>

\* Q on an empty stack after the CTM was changed and text was shown
C19_WitnessEmpty ==
  /\ lastOp.Operator = "Q"
  /\ pre.gStack = <<>>
  /\ pre.gState.CTM # IdentityMatrix
  /\ pre.buffer # <<>>
  /\ e = pre

\* a Q on the empty stack does not count: Q, q, q leaves depth 2
C19_WitnessDepth ==
  /\ Len(hist) = 3
  /\ hist[1].op.Operator = "Q"
  /\ Len(e.gStack) = 2

\* the operations of the streams one after the other
RECURSIVE AllOperations(_)
AllOperations(streams) ==
  IF streams = <<>> THEN <<>> ELSE Head(streams).ops \o AllOperations(Tail(streams))

\* the page's operations processed in one run by the extractor made for the page
OneRun(pdfPage) ==
  RunOps(Result(NewExtractor(FontObjs(pdfPage)).e), AllOperations(pdfPage.streams))

\* every stream of the page parses
AllParse(pdfPage) == \A k \in 1..Len(pdfPage.streams) : ~pdfPage.streams[k].err

\* the texts a new extractor gets from each stream on its own, put together
RECURSIVE SeparateText(_)
SeparateText(streams) ==
  IF streams = <<>> THEN <<>>
  ELSE RunOps(Result(E0), Head(streams).ops).e.buffer \o SeparateText(Tail(streams))

\* C20: for a page whose /Contents is an array of streams that parse, the
\* loop of ExtractText over the streams ends with the extractor (CTM, graphics
\* stack, text state, buffer, lastX, lastY) that one run over the operations
\* of the first stream, then of the second, and so on ends with; the text of
\* the page in the result is the buffer of that run, and the load panics
\* exactly where that run does.  Stated of the page the loop handled last,
\* at every point of every load.
C20_StreamsAsOneRun ==
  /\ \A k \in { x \in {pageIndex, pageIndex + 1} : 1 <= x /\ x <= Len(doc) } :
        (AllParse(doc[k]) /\ (k = pageIndex \/ loader = "panicked")) =>
          LET ran(streamed, one, text) ==
                /\ streamed.e = one.e
                /\ streamed.panic = one.panic
                /\ ~streamed.err
                /\ text = IF one.panic THEN <<>> ELSE one.e.buffer
                /\ \A p \in 1..Len(Pages) :
                      Pages[p].PageNumber = k => (~one.panic /\ Pages[p].Content = one.e.buffer)
                /\ (k <= pageIndex /\ ~doc[k].getPageErr) =>
                      \E p \in 1..Len(Pages) : Pages[p].PageNumber = k
                /\ (k = pageIndex + 1 /\ loader = "panicked" /\ ~doc[k].danglingFont) =>
                      one.panic
          IN ran(ExtractStreams([e |-> NewExtractor(FontObjs(doc[k])).e,
                                 panic |-> FALSE, err |-> FALSE], doc[k].streams),
                 OneRun(doc[k]),
                 ExtractText(NewExtractor(FontObjs(doc[k])).e, doc[k].streams).text)
  /\ \A p \in 1..Len(Pages) : AllParse(doc[Pages[p].PageNumber])

\* a page of three streams is in the result: its text is that of the one run,
\* which is not the text the streams give one by one, and the run ends with
\* the graphics state restored in the second stream from the q of the first
C20_Witness ==
  \E p \in 1..Len(Pages) :
     LET pdfPage == doc[Pages[p].PageNumber]
     IN /\ Len(pdfPage.streams) = 3
        /\ pdfPage.streams[1].ops = SavedOps
        /\ Pages[p].Content = OneRun(pdfPage).e.buffer
        /\ Pages[p].Content # SeparateText(pdfPage.streams)
        /\ OneRun(pdfPage).e.gStack = <<>>
        /\ OneRun(pdfPage).e.gState.CTM = IdentityMatrix
        /\ OneRun(pdfPage).e.textState.Font = "F2"

(***************************************************************************)
(* Properties of the end of the input                                      *)
(***************************************************************************)

\* every object read from position from to the end of the data, or to the
\* first one that does not lex
RECURSIVE ObjectsFrom(_, _)
ObjectsFrom(bytes, from) ==
  LET rest(r) == IF r.err # "nil" THEN <<>> ELSE <<r.obj>> \o ObjectsFrom(bytes, r.pos)
  IN rest(ReadObject(bytes, from))

\* the objects of a sequence of operations: operands, then the operator
RECURSIVE LaidOut(_)
LaidOut(ops) ==
  IF ops = <<>> THEN <<>>
  ELSE Head(ops).Operands \o <<Keyword(Head(ops).Operator)>> \o LaidOut(Tail(ops))

\* where the operation returned last ended
LastEnd == IF emitted = <<>> THEN 0 ELSE emitted[Len(emitted)].to

\* every returned operation ends with bytes of the data: its operator, or
\* the EI of an inline image
EndsAtOperator ==
  \A k \in 1..Len(emitted) :
    LET to == emitted[k].to
        name == emitted[k].op.Operator
    IN /\ to > emitted[k].from /\ to <= Len(data)
       /\ name # <<>>
       /\ IF name = INLINE_IMAGE THEN SubSeq(data, to - 1, to) = <<69, 73>>
          ELSE SubSeq(data, to - Len(name) + 1, to) = name

\* C21: the end of the input is terminal.  The operands that follow the last
\* operator of the stream are in no operation: when Next has reported the
\* end they are still in p.operands and every returned operation ended at
\* its operator before them, and the operations of Parse are the objects of
\* the stream up to its last operator.  Once Next has reported the end of
\* the stream, every later call reports it again and returns no operation.
C21_EndOfInputTerminal ==
  /\ [](/\ EndsAtOperator
        /\ eof => ret.kind = "EOF"
        /\ eof =>
             LET held(rest) ==
                   (\A i \in 1..Len(rest) : rest[i].k # "kw") => operands = rest
             IN held(ObjectsFrom(data, LastEnd))
        /\ parsed.err = "nil" =>
             LET upTo(all, laid) ==
                   /\ Len(laid) <= Len(all)
                   /\ laid = SubSeq(all, 1, Len(laid))
                   /\ \A i \in (Len(laid) + 1)..Len(all) : all[i].k # "kw"
             IN upTo(ObjectsFrom(data, 0), LaidOut(parsed.ops)))
  /\ [][ret.kind = "EOF" =>
          (ret'.kind = "EOF" /\ eof' /\ emitted' = emitted /\ operands' = operands)]_vars

\* the stream (A) Tj 1 /W: Next has returned Tj and then the end of the
\* stream, twice or more; the operands 1 and /W are still in the accumulator
\* and in no operation, of Next or of Parse
C21_Witness ==
  /\ eof /\ ret.kind = "EOF"
  /\ Len(emitted) = 1
  /\ emitted[1].op = Operation(<<84, 106>>, <<Str(<<65>>)>>)
  /\ operands = <<Num(1), LexName(<<87>>)>>
  /\ parsed = [err |-> "nil", ops |-> <<Operation(<<84, 106>>, <<Str(<<65>>)>>)>>]

\* Next has come back without an operation from a BI it read after the last
\* returned operation, with the reader at the end of the data: the input
\* ended inside the inline image
TruncatedImage ==
  LET lead == ReadToKeyword(data, LastEnd)
  IN /\ ret.kind \in {"EOF", "error"}
     /\ lead # <<>> /\ lead[Len(lead)] = Keyword(BI)
     /\ pos = Len(data)

\* C22 (as claimed): when the input ends inside an inline image, Next returns
\* no INLINE_IMAGE operation for it, and what it returns is an error other
\* than io.EOF, the result of a stream that ended cleanly.
C22_TruncatedImageIsAnError ==
  TruncatedImage =>
     /\ \A k \in 1..Len(emitted) : emitted[k].to <= LastEnd
     /\ ret.kind = "error"

\* BI /W 1 ID, a line feed and data without a valid EI, read with a lexer
\* that reports the end of the input as a plain error: the dictionary is
\* complete, the bytes run out in the scan for EI, and Next returns io.EOF
\* without p.eof being set
C22_TruncatedDataReportsEOF ==
  /\ lexerEOF = "error"
  /\ TruncatedImage
  /\ Len(ReadToKeyword(data, LastEnd)) = 1
  /\ PairsToKeyword(data, 2) # <<>>
  /\ ret.kind = "EOF"
  /\ ~eof
  /\ operands = <<Dictionary(<<87>> :> Num(1))>>

====
